---- MODULE Spec2Model ----
(***************************************************************************)
(* Offline-first sync layer of the Pokemon card collection application:    *)
(* the localStorage cache and pending-change queue (lib/storage/            *)
(* localStorage.ts), the row/model conversions (lib/types.ts) and the      *)
(* optimistic mutations and the replay pass of the sync layer (lib/db/sync, *)
(* stored in database.types.ts from line 71 on).                            *)
(*                                                                         *)
(* The event loop is single threaded: an async function runs without       *)
(* interruption up to its next `await`, so every action below is one such  *)
(* run: from the call (or from the arrival of the awaited Supabase         *)
(* response) to the next await or to the end of the function.  The effect  *)
(* of a request on the Remote Store is taken at the arrival of its         *)
(* response.                                                               *)
(***************************************************************************)
EXTENDS Integers, Sequences, FiniteSets, TLC

(***************************************************************************)
(* Bounds of the model.                                                    *)
(***************************************************************************)
MaxCalls == 2        \* mutation calls made in one behaviour
MaxPasses == 2       \* syncPendingChanges passes started in one behaviour
MaxClock == 1        \* Date.now() ranges over 0..MaxClock
MaxInFlight == 2     \* mutation calls suspended on a remote call at once
MaxSubs == 3         \* onSyncStatusChange calls made in one behaviour
MaxCorrupt == 1      \* localStorage keys holding unparseable text at once
MaxPending == 1      \* addPendingChange calls made on the failing storage
MaxDebounced == 4    \* calls of the debounced wrapper made in one behaviour

Slots == 1..MaxInFlight

(***************************************************************************)
(* Values.                                                                 *)
(***************************************************************************)
Users == {"p1", "p2"}       \* the profiles
Selected == {"p1"}          \* the profile whose collection the calls mutate
Undefined == "undefined"     \* the JavaScript value undefined (an absent note)
Null == "null"               \* the SQL / JSON value null

\* The quantity field of the forms: onChange sets parseInt(e.target.value) || 1,
\* and the buttons call the sync layer with that value (the min="1" of the
\* input is checked by no form submission).
QuantityInput(typed) == IF typed = 0 THEN 1 ELSE typed

\* The arguments of the addCardToCollection calls that are made.
AddInputs ==
    { [cardId |-> "base1-4", quantity |-> 1, condition |-> "near-mint", notes |-> Undefined],
      [cardId |-> "base1-4", quantity |-> 2, condition |-> "good", notes |-> "holo"],
      [cardId |-> "base1-4", quantity |-> QuantityInput(-1), condition |-> "good",
       notes |-> Undefined] }

\* The `updates` arguments of the updateCardInCollection calls that are made.
\* A field of a Partial<...> is a sequence: <<>> when the key is omitted,
\* <<v>> when it is supplied (CardDetailModal supplies notes: undefined to
\* clear a note).
UpdateInputs ==
    { [quantity |-> <<2>>, condition |-> <<>>, notes |-> <<>>],
      [quantity |-> <<1>>, condition |-> <<"played">>, notes |-> <<"">>],
      [quantity |-> <<2>>, condition |-> <<"good">>, notes |-> <<Undefined>>],
      [quantity |-> <<QuantityInput(-1)>>, condition |-> <<"good">>, notes |-> <<Undefined>>] }

TempId(t) == <<"temp", t>>          \* `temp-${Date.now()}`
ServerId(n) == <<"uuid", n>>        \* gen_random_uuid() of the table
IsTemp(id) == id[1] = "temp"

(***************************************************************************)
(* lib/types.ts: conversions between the app model and the database row.   *)
(***************************************************************************)
\* `x || null`: undefined and the empty string are falsy.
OrNull(x) == IF x \in {Undefined, ""} THEN Null ELSE x
\* `x || undefined`: null and the empty string are falsy.
OrUndefined(x) == IF x \in {Null, ""} THEN Undefined ELSE x

collectionCardToRow(card) ==
    [user_id |-> card.userId, card_id |-> card.cardId, quantity |-> card.quantity,
     condition |-> card.condition, notes |-> OrNull(card.notes)]

collectionCardRowToCollectionCard(row) ==
    [id |-> row.id, userId |-> row.user_id, cardId |-> row.card_id,
     quantity |-> row.quantity, condition |-> row.condition,
     notes |-> OrUndefined(row.notes)]

(***************************************************************************)
(* Array helpers (Array.prototype.map / filter / find / findIndex).        *)
(***************************************************************************)
Range(s) == { s[i] : i \in 1..Len(s) }
Ids(cards) == { cards[i].id : i \in 1..Len(cards) }
\* findIndex(c => c.id === id), 1-based; 0 when there is none.
FindIndex(cards, id) ==
    IF \E i \in 1..Len(cards) : cards[i].id = id
    THEN CHOOSE i \in 1..Len(cards) :
            /\ cards[i].id = id
            /\ \A j \in 1..(i - 1) : cards[j].id # id
    ELSE 0
\* filter(c => c.id !== id)
WithoutId(cards, id) == SelectSeq(cards, LAMBDA c : c.id # id)
\* the number of elements of the array that carry the id
CountId(cards, id) == Cardinality({ i \in 1..Len(cards) : cards[i].id = id })
\* the number of elements of the array equal to the card
CountCard(cards, card) == Cardinality({ i \in 1..Len(cards) : cards[i] = card })

(***************************************************************************)
(* State.                                                                  *)
(***************************************************************************)
VARIABLES
    online,        \* navigator.onLine
    now,           \* Date.now()
    cache,         \* localStorage 'pokemon-cards:collection': per profile,
                   \*   [present, cards]; present = FALSE when there is no entry
    pendingQ,      \* localStorage 'pokemon-cards:pending-changes'
    remote,        \* the rows of the table collection_cards
    nextRow,       \* the number of the next row id the table assigns
    nextChange,    \* the number of the next PendingChange id (crypto.randomUUID)
    status,        \* currentSyncStatus
    tasks,         \* the mutation calls suspended on their remote call
    sync,          \* the syncPendingChanges pass, suspended or not running
    ret,           \* history: the call that completed in the last step
    applied,       \* history: ids of the changes a pass replayed successfully
    offlineIds,    \* history: ids of the changes queued by a call made offline
    calls,         \* history: the number of mutation calls made
    passes,        \* history: the number of passes started
    usersCache,    \* localStorage 'pokemon-cards:users': [present, users]
    read,          \* the syncCollectionFromServer / syncUsersFromServer call
                   \*   suspended on its fetch, or not running
    full,          \* the fullSync call, suspended or not running
    listeners,     \* syncListeners: the set of registered callbacks
    inbox,         \* per callback, the statuses it has been called with
    subs,          \* history: per unsubscribe handle, its callback and its use
    lastSet,       \* history: the statuses setSyncStatus set in the last step
    created,       \* history: the pairs <<change id, row number>> of the rows
                   \*   the replay of a queued add has created
    searchCache,   \* localStorage 'pokemon-cards:search:<query>': per key, an entry
    cardCache,     \* localStorage 'pokemon-cards:card:<id>': per card id, an entry
    api,           \* the searchCards / getCardById / getCardsByIds call suspended
                   \*   on its fetch, or not running
    storage,       \* the condition of localStorage: [mode, corrupt]
    deb            \* debounce: the closure's timer, with the history of the calls

vars == <<online, now, cache, pendingQ, remote, nextRow, nextChange, status,
          tasks, sync, ret, applied, offlineIds, calls, passes,
          usersCache, read, full, listeners, inbox, subs, lastSet, created,
          searchCache, cardCache, api, storage, deb>>


(***************************************************************************)
(* lib/storage/localStorage.ts: the typed accessors.  The timestamps of    *)
(* the entries (addedAt, updatedAt, PendingChange.timestamp) are not read  *)
(* by any operation of the sync layer and are left out.                    *)
(***************************************************************************)
\* mutant of getCachedCollection: nothing is found in the cache
getCachedCollectionNothing(c, userId) == [present |-> FALSE, cards |-> <<>>]
getCachedCollection(c, userId) == c[userId]
\* `getCachedCollection(userId) || []`
CachedOrEmpty(c, userId) == IF c[userId].present THEN c[userId].cards ELSE <<>>
\* mutant of setCachedCollection: the stored mapping is not read first, the
\* collections of the other profiles are lost
setCachedCollectionAlone(c, userId, cards) ==
    [u \in Users |-> IF u = userId THEN [present |-> TRUE, cards |-> cards]
                                    ELSE [present |-> FALSE, cards |-> <<>>]]
\* allCollections[userId] = cards, written back with the other profiles' lists
setCachedCollection(c, userId, cards) ==
    [c EXCEPT ![userId] = [present |-> TRUE, cards |-> cards]]
getPendingChanges(q) == q
\* mutant of addPendingChange: the change is put at the head of the list
addPendingChangeFront(q, type, data, id) ==
    <<[id |-> id, type |-> type, data |-> data]>> \o getPendingChanges(q)
\* mutant of addPendingChange: the extended list is not stored
addPendingChangeLost(q, type, data, id) == getPendingChanges(q)
addPendingChange(q, type, data, id) ==
    Append(getPendingChanges(q), [id |-> id, type |-> type, data |-> data])
clearPendingChanges(q) == <<>>

(***************************************************************************)
(* The Remote Store: the table collection_cards behind the Supabase        *)
(* client.  A request ends in one of three ways: "ok" (applied, the        *)
(* resolved result has error = null), "error" (not applied, the resolved   *)
(* result carries an error) or "throw" (not applied, the awaited promise   *)
(* rejects).                                                               *)
(***************************************************************************)
Outcomes == {"ok", "error", "throw"}
Failed(o) == o # "ok"

\* CHECK (quantity > 0) of the table
CheckQuantity(q) == q > 0
\* id is a UUID column: a filter on a temporary id is rejected by the server
ValidUuid(id) == ~IsTemp(id)

InsertedRow(rowData, n) ==
    [id |-> ServerId(n), user_id |-> rowData.user_id, card_id |-> rowData.card_id,
     quantity |-> rowData.quantity, condition |-> rowData.condition,
     notes |-> rowData.notes]
RemoteInsert(rows, rowData, n) == rows \cup {InsertedRow(rowData, n)}

\* an update payload: a key whose value is undefined is dropped by JSON.stringify
UpdatedRow(r, updateData) ==
    [r EXCEPT !.quantity = IF updateData.quantity = <<>> THEN @ ELSE updateData.quantity[1],
              !.condition = IF updateData.condition = <<>> THEN @ ELSE updateData.condition[1],
              !.notes = IF updateData.notes = <<>> THEN @ ELSE updateData.notes[1]]
RemoteUpdate(rows, id, updateData) ==
    { IF r.id = id THEN UpdatedRow(r, updateData) ELSE r : r \in rows }
RemoteDelete(rows, id) == { r \in rows : r.id # id }
RowIds(rows) == { r.id : r \in rows }
RowWithId(rows, id) == CHOOSE r \in rows : r.id = id

\* whether the server can answer the request with "ok"
InsertAccepted(rowData) == CheckQuantity(rowData.quantity)
UpdateAccepted(id, updateData) ==
    /\ ValidUuid(id)
    /\ IF updateData.quantity = <<>> THEN TRUE ELSE CheckQuantity(updateData.quantity[1])
DeleteAccepted(id) == ValidUuid(id)

(***************************************************************************)
(* History records.                                                        *)
(***************************************************************************)
NoUpdates == [quantity |-> <<>>, condition |-> <<>>, notes |-> <<>>]
NoId == <<"none", 0>>
IdleTask ==
    [op |-> "idle", user |-> "", id |-> NoId, cached |-> <<>>, entry |-> <<>>,
     cardIndex |-> 0, updates |-> NoUpdates, before |-> <<>>, alone |-> FALSE,
     earlier |-> <<>>]
IdleSync == [pc |-> "idle", pending |-> <<>>, i |-> 0, results |-> <<>>]
NoRet ==
    [op |-> "none", user |-> "", online |-> FALSE, outcome |-> "none", id |-> NoId,
     updates |-> NoUpdates, entry |-> <<>>, value |-> <<>>, before |-> <<>>,
     alone |-> FALSE, response |-> "none", pending |-> <<>>, results |-> <<>>,
     earlier |-> <<>>]

\* a mutation call that starts overlaps every call that is suspended
Disturb(ts) == [s \in Slots |-> IF ts[s].op = "idle" THEN ts[s] ELSE [ts[s] EXCEPT !.alone = FALSE]]
InFlight(ts) == { s \in Slots : ts[s].op # "idle" }
FreeSlot(ts) == CHOOSE s \in Slots : ts[s].op = "idle" /\ \A r \in 1..(s - 1) : ts[r].op # "idle"
\* the call of slot s ends: every call still suspended has seen it end
Overtake(ts, s, end) ==
    [r \in Slots |-> IF r = s THEN IdleTask
                     ELSE IF ts[r].op = "idle" THEN ts[r]
                     ELSE [ts[r] EXCEPT !.earlier = Append(@, end)]]
\* a step of the mutation calls, the connectivity or the clock: it sets no
\* status and touches neither the reads, fullSync nor the listeners
Quiet ==
    /\ lastSet' = <<>>
    /\ UNCHANGED <<usersCache, read, full, listeners, inbox, subs, created>>

(***************************************************************************)
(* The reads, fullSync and the status listeners.                           *)
(***************************************************************************)
Listeners == {"f", "g"}      \* the callbacks passed to onSyncStatusChange
Handles == 1..MaxSubs        \* the unsubscribe closures onSyncStatusChange returns
Statuses == {"idle", "syncing", "error", "offline"}

\* the table users (created_at ascending); no operation of the model writes it
ServerUserRows ==
    << [id |-> "p1", name |-> "Ash", avatar |-> Null],
       [id |-> "p2", name |-> "Misty", avatar |-> "misty.png"] >>
userRowToUser(row) == [id |-> row.id, name |-> row.name, avatar |-> OrUndefined(row.avatar)]
\* .from('users').select('*').order('created_at'), mapped by userRowToUser
FetchUsers == [i \in 1..Len(ServerUserRows) |-> userRowToUser(ServerUserRows[i])]

\* the numbers of the rows of the profile; added_at grows with the row number
RowNumbers(rows, userId) == { r.id[2] : r \in { x \in rows : x.user_id = userId } }
RECURSIVE Descending(_)
Descending(S) ==
    IF S = {} THEN <<>>
    ELSE LET m == CHOOSE x \in S : \A y \in S : y <= x
         IN  <<m>> \o Descending(S \ {m})
\* .select('*').eq('user_id', userId).order('added_at', { ascending: false }),
\* mapped by collectionCardRowToCollectionCard
FetchCollection(rows, userId) ==
    LET d == Descending(RowNumbers(rows, userId))
    IN  [i \in 1..Len(d) |-> collectionCardRowToCollectionCard(RowWithId(rows, ServerId(d[i])))]

NoUsers == [present |-> FALSE, users |-> <<>>]
getCachedUsers(uc) == uc
setCachedUsers(users) == [present |-> TRUE, users |-> users]
\* history of a handle: "unused", "active" (returned and not called), "called",
\* or "old" (called, and its callback passed to onSyncStatusChange again since)
NoSub == [cb |-> "", state |-> "unused"]
IdleRead == [pc |-> "idle", fn |-> "", user |-> ""]
IdleFull == [pc |-> "idle", user |-> "", results |-> <<>>]

(***************************************************************************)
(* The card catalog (lib/api/pokemon-tcg.ts), its caches and the failures  *)
(* of localStorage (lib/storage/localStorage.ts), and debounce             *)
(* (lib/utils.ts).                                                         *)
(***************************************************************************)
\* the lifetimes of the cached searches and cards, in milliseconds
CACHE_DURATION == [SEARCH |-> 24 * 60 * 60 * 1000, CARD |-> 7 * 24 * 60 * 60 * 1000]
\* the instants at which the catalog is used: around both lifetimes
Instants ==
    {0, 1, CACHE_DURATION.SEARCH - 1, CACHE_DURATION.SEARCH, CACHE_DURATION.SEARCH + 1,
     CACHE_DURATION.CARD - 1, CACHE_DURATION.CARD, CACHE_DURATION.CARD + 1}

Queries == {"pika", "Pika", "mew"}
\* mutant of toLowerCase: the query is the key as it is typed
toLowerCaseKeeps(query) == query
\* query.toLowerCase()
toLowerCase(query) == IF query = "Pika" THEN "pika" ELSE query
SearchKeys == { toLowerCase(q) : q \in Queries }
CardIds == {"c1", "c2", "c3"}
\* the cards of the Pokemon TCG API
PokemonCard(id) ==
    [id |-> id, name |-> CASE id = "c1" -> "Pikachu" [] id = "c2" -> "Pikachu V"
                           [] OTHER -> "Mew"]
\* GET /cards?q=name:*query*: the names are matched without regard to case
ApiSearch(query) ==
    IF query \in {"pika", "Pika"} THEN <<PokemonCard("c1"), PokemonCard("c2")>>
    ELSE <<PokemonCard("c3")>>
\* GET /cards?q=id:"a" OR id:"b": the cards that have one of the ids
ApiCards(ids) ==
    LET has(i) == IF i \in ids THEN <<PokemonCard(i)>> ELSE <<>>
    IN  has("c1") \o has("c2") \o has("c3")
\* the card id lists passed to getCardsByIds
IdLists ==
    {<<>>} \cup { <<a>> : a \in CardIds } \cup { <<a, b>> : a \in {"c1", "c3"}, b \in CardIds }

\* an item of localStorage: no item, a JSON text (v holds the value it
\* parses to) or a text JSON.parse refuses
Absent == [kind |-> "absent", v |-> <<>>]
Json(value) == [kind |-> "json", v |-> <<value>>]
Garbage == [kind |-> "garbage", v |-> <<>>]
\* how an expression ends: it throws, or it has the value null (v = <<>>) or
\* the value v[1]
Thrown == [threw |-> TRUE, v |-> <<>>]
NoData == [threw |-> FALSE, v |-> <<>>]
Data(value) == [threw |-> FALSE, v |-> <<value>>]

\* the keys of localStorage: the three fixed keys, a key for every lowercased
\* query and a key for every card id
StorageKeys == {"users", "collection", "pending"} \cup SearchKeys \cup CardIds
\* localStorage works and holds what was written
Healthy == [mode |-> "ok", corrupt |-> {}]
\* localStorage.getItem(key): throws when the storage is unavailable
LocalGetItem(st, key, item) ==
    IF st.mode = "unavailable" THEN Thrown
    ELSE Data(IF key \in st.corrupt THEN Garbage ELSE item)
JsonParse(item) == IF item.kind = "garbage" THEN Thrown ELSE [threw |-> FALSE, v |-> item.v]
\* mutant of getItem: no try / catch around the read
getItemUncaught(st, key, item) ==
    LET got == LocalGetItem(st, key, item)
    IN  IF got.threw THEN Thrown
        ELSE IF got.v[1].kind = "absent" THEN NoData
        ELSE JsonParse(got.v[1])
\* try { item = localStorage.getItem(key); return item ? JSON.parse(item) : null }
\* catch { return null }
getItem(st, key, item) ==
    LET got == LocalGetItem(st, key, item)
    IN  IF got.threw THEN NoData
        ELSE IF got.v[1].kind = "absent" THEN NoData
        ELSE IF JsonParse(got.v[1]).threw THEN NoData
        ELSE JsonParse(got.v[1])
\* localStorage.setItem / removeItem take effect unless the storage is
\* unavailable; setItem and removeItem catch what they throw
Writable(st) == st.mode = "ok"
\* the storage once setItem(key, ...) or removeItem(key) has run
Written(st, key) == IF Writable(st) THEN [st EXCEPT !.corrupt = @ \ {key}] ELSE st

\* mutant of isCacheValid: an entry is still valid at the age of its lifetime
isCacheValidAtLifetime(t, timestamp, duration) == t - timestamp <= duration
\* Date.now() - timestamp < duration
isCacheValid(t, timestamp, duration) == t - timestamp < duration

\* an entry of the search cache or of the card cache: { data, timestamp }
NoEntry == [present |-> FALSE, data |-> <<>>, timestamp |-> 0]
Entry(data, t) == [present |-> TRUE, data |-> data, timestamp |-> t]
StoredItem(e) == IF e.present THEN Json(e) ELSE Absent
\* what a lookup of an entry of the lifetime returns
Lookup(st, key, e, t, duration) ==
    LET cached == getItem(st, key, StoredItem(e))
    IN  IF cached.threw THEN cached
        ELSE IF cached.v = <<>> THEN NoData
        ELSE IF isCacheValid(t, cached.v[1].timestamp, duration) THEN Data(cached.v[1].data)
        ELSE NoData
\* the entry after the lookup: an expired entry that was read is removed
AfterLookup(st, key, e, t, duration) ==
    LET cached == getItem(st, key, StoredItem(e))
    IN  IF ~cached.threw /\ cached.v # <<>> /\ Writable(st)
           /\ ~isCacheValid(t, cached.v[1].timestamp, duration)
        THEN NoEntry ELSE e

getCachedSearch(st, sc, t, query) ==
    Lookup(st, toLowerCase(query), sc[toLowerCase(query)], t, CACHE_DURATION.SEARCH)
\* the search cache after getCachedSearch(query)
SearchCacheAfter(st, sc, t, query) ==
    [sc EXCEPT ![toLowerCase(query)] =
        AfterLookup(st, toLowerCase(query), @, t, CACHE_DURATION.SEARCH)]
setCachedSearch(st, sc, t, query, results) ==
    IF Writable(st) THEN [sc EXCEPT ![toLowerCase(query)] = Entry(results, t)] ELSE sc
getCachedCard(st, cc, t, cardId) == Lookup(st, cardId, cc[cardId], t, CACHE_DURATION.CARD)
\* the card cache after getCachedCard(cardId)
CardCacheAfter(st, cc, t, cardId) ==
    [cc EXCEPT ![cardId] = AfterLookup(st, cardId, @, t, CACHE_DURATION.CARD)]
setCachedCard(st, cc, t, card) ==
    IF Writable(st) THEN [cc EXCEPT ![card.id] = Entry(card, t)] ELSE cc
\* result.data.forEach(card => setCachedCard(card))
RECURSIVE setCachedCards(_, _, _, _)
setCachedCards(st, cc, t, cards) ==
    IF cards = <<>> THEN cc
    ELSE setCachedCards(st, setCachedCard(st, cc, t, Head(cards)), t, Tail(cards))

\* the accessors of the profiles, the collections and the pending changes,
\* read through getItem
getCachedUsersFrom(st, uc) ==
    getItem(st, "users", IF uc.present THEN Json(uc.users) ELSE Absent)
\* allCollections?.[userId] || null
getCachedCollectionFrom(st, c, userId) ==
    LET all == getItem(st, "collection",
                       IF \E u \in Users : c[u].present THEN Json(c) ELSE Absent)
    IN  IF all.threw THEN all
        ELSE IF all.v = <<>> THEN NoData
        ELSE IF all.v[1][userId].present THEN Data(all.v[1][userId].cards)
        ELSE NoData
\* getItem(KEYS.PENDING_CHANGES) || []
getPendingChangesFrom(st, q) ==
    LET got == getItem(st, "pending", IF q = <<>> THEN Absent ELSE Json(q))
    IN  IF got.threw THEN got
        ELSE IF got.v = <<>> THEN Data(<<>>)
        ELSE got
\* the writers of the profiles, the collections and the pending changes:
\* whether the call throws, and what the key holds after it (setItem and
\* removeItem change nothing when the storage is unavailable)
setCachedUsersIn(st, uc, users) ==
    [threw |-> FALSE, after |-> IF Writable(st) THEN setCachedUsers(users) ELSE uc]
\* getItem(KEYS.COLLECTION) || {}, allCollections[userId] = cards, setItem
setCachedCollectionIn(st, c, userId, cards) ==
    LET all == getItem(st, "collection",
                       IF \E u \in Users : c[u].present THEN Json(c) ELSE Absent)
        allCollections == IF all.v = <<>>
                          THEN [u \in Users |-> [present |-> FALSE, cards |-> <<>>]]
                          ELSE all.v[1]
    IN  [threw |-> all.threw,
         after |-> IF ~all.threw /\ Writable(st)
                   THEN setCachedCollection(allCollections, userId, cards) ELSE c]
\* changes = getPendingChanges(), changes.push(...), setItem
addPendingChangeIn(st, q, type, data, id) ==
    LET changes == getPendingChangesFrom(st, q)
    IN  [threw |-> changes.threw,
         after |-> IF ~changes.threw /\ Writable(st)
                   THEN addPendingChange(changes.v[1], type, data, id) ELSE q]
clearPendingChangesIn(st, q) ==
    [threw |-> FALSE, after |-> IF Writable(st) THEN clearPendingChanges(q) ELSE q]

\* the catalog call suspended on its fetch, or not running (stale, history:
\* its lookup found an expired entry and removed it)
IdleApi == [pc |-> "idle", fn |-> "", query |-> "", ids |-> <<>>, uncached |-> <<>>,
            cached |-> <<>>, stale |-> FALSE]
\* debounce: the wait, and the closure's state: the pending timer (timeout),
\* with the history of the wrapper's calls and of the calls of func
Wait == 2
MaxTime == 6
NoTimer == [timeout |-> <<>>, calls |-> <<>>, invoked |-> <<>>]
Args == {"a", "b"}

\* the state of the catalog, of the storage and of debounce at the start
InitElsewhere ==
    /\ searchCache = [k \in SearchKeys |-> NoEntry]
    /\ cardCache = [id \in CardIds |-> NoEntry]
    /\ api = IdleApi
    /\ storage = Healthy
    /\ deb = NoTimer
\* a step of the sync layer leaves them alone
Elsewhere == UNCHANGED <<searchCache, cardCache, api, storage, deb>>

Init ==
    /\ online \in BOOLEAN
    /\ now = 0
    /\ cache = [u \in Users |-> [present |-> FALSE, cards |-> <<>>]]
    /\ pendingQ = <<>>
    /\ remote = {}
    /\ nextRow = 1
    /\ nextChange = 1
    /\ status = "idle"
    /\ tasks = [s \in Slots |-> IdleTask]
    /\ sync = IdleSync
    /\ ret = NoRet
    /\ applied = {}
    /\ offlineIds = {}
    /\ calls = 0
    /\ passes = 0
    /\ usersCache = NoUsers
    /\ read = IdleRead
    /\ full = IdleFull
    /\ listeners = {}
    /\ inbox = [l \in Listeners |-> <<>>]
    /\ subs = [h \in Handles |-> NoSub]
    /\ lastSet = <<>>
    /\ created = {}
    /\ InitElsewhere

\* mutant of CallOutcome: the catch block swallows the failure
CallOutcomeSwallowed(o) == "returned"
\* how a mutation call ends: its catch block ends with `throw error`
CallOutcome(o) == IF o = "ok" THEN "returned" ELSE "raised"
\* history: whether the remote attempt of a call failed
Response(o) == IF o = "ok" THEN "ok" ELSE "failed"

(***************************************************************************)
(* The environment: connectivity and the clock.                            *)
(***************************************************************************)
GoOnline ==
    /\ ~online
    /\ online' = TRUE
    /\ ret' = NoRet
    /\ Quiet
    /\ UNCHANGED <<now, cache, pendingQ, remote, nextRow, nextChange, status, tasks,
                   sync, applied, offlineIds, calls, passes>>
    /\ Elsewhere

GoOffline ==
    /\ online
    /\ online' = FALSE
    /\ ret' = NoRet
    /\ Quiet
    /\ UNCHANGED <<now, cache, pendingQ, remote, nextRow, nextChange, status, tasks,
                   sync, applied, offlineIds, calls, passes>>
    /\ Elsewhere

Tick ==
    /\ now < MaxClock
    /\ now' = now + 1
    /\ ret' = NoRet
    /\ Quiet
    /\ UNCHANGED <<online, cache, pendingQ, remote, nextRow, nextChange, status, tasks,
                   sync, applied, offlineIds, calls, passes>>
    /\ Elsewhere

(***************************************************************************)
(* addCardToCollection                                                     *)
(***************************************************************************)
TempCard(userId, in, t) ==
    [id |-> TempId(t), userId |-> userId, cardId |-> in.cardId, quantity |-> in.quantity,
     condition |-> in.condition, notes |-> in.notes]
\* cached.unshift(tempCard)
Unshift(cached, card) == <<card>> \o cached
\* cached.map(c => (c.id === tempCard.id ? card : c))
ReplaceTemp(cached, tempId, card) ==
    [i \in 1..Len(cached) |-> IF cached[i].id = tempId THEN card ELSE cached[i]]

\* history: the field values an addCardToCollection call supplies
Supply(in) ==
    [quantity |-> <<in.quantity>>, condition |-> <<in.condition>>, notes |-> <<in.notes>>]

\* the call, up to `return tempCard` (offline) or to the await of the insert
AddCall(userId, in) ==
    LET tempCard == TempCard(userId, in, now)
        before == CachedOrEmpty(cache, userId)
        cached == Unshift(before, tempCard)
    IN  /\ calls < MaxCalls
        /\ calls' = calls + 1
        /\ Quiet
        /\ cache' = setCachedCollection(cache, userId, cached)
        /\ IF ~online
           THEN /\ pendingQ' = addPendingChange(pendingQ, "add", tempCard, nextChange)
                /\ nextChange' = nextChange + 1
                /\ tasks' = Disturb(tasks)
                /\ ret' = [NoRet EXCEPT !.op = "add", !.user = userId, !.outcome = "returned",
                                        !.id = tempCard.id, !.updates = Supply(in),
                                        !.entry = <<tempCard>>,
                                        !.value = <<tempCard>>, !.before = before,
                                        !.alone = (InFlight(tasks) = {})]
           ELSE /\ InFlight(tasks) # Slots
                /\ tasks' = [Disturb(tasks) EXCEPT ![FreeSlot(tasks)] =
                                [IdleTask EXCEPT !.op = "add", !.user = userId,
                                                 !.id = tempCard.id, !.cached = cached,
                                                 !.updates = Supply(in),
                                                 !.entry = <<tempCard>>, !.before = before,
                                                 !.alone = (InFlight(tasks) = {})]]
                /\ ret' = NoRet
                /\ UNCHANGED <<pendingQ, nextChange>>
        /\ UNCHANGED <<online, now, remote, nextRow, status, sync, applied, passes>>
        /\ offlineIds' = IF online \/ pendingQ' = pendingQ THEN offlineIds
                         ELSE offlineIds \cup {nextChange}
        /\ Elsewhere

\* the response of the insert: `return card`, or the catch block
AddResponse(s, o) ==
    LET t == tasks[s]
        tempCard == t.entry[1]
        rowData == collectionCardToRow(tempCard)
        card == collectionCardRowToCollectionCard(InsertedRow(rowData, nextRow))
    IN  /\ t.op = "add"
        /\ o = "ok" => InsertAccepted(rowData)
        /\ tasks' = Overtake(tasks, s, [op |-> "add", id |-> t.id, response |-> Response(o)])
        /\ Quiet
        /\ IF o = "ok"
           THEN /\ remote' = RemoteInsert(remote, rowData, nextRow)
                /\ nextRow' = nextRow + 1
                /\ cache' = setCachedCollection(cache, t.user,
                                                ReplaceTemp(t.cached, tempCard.id, card))
                /\ UNCHANGED <<pendingQ, nextChange>>
           ELSE /\ pendingQ' = addPendingChange(pendingQ, "add", tempCard, nextChange)
                /\ nextChange' = nextChange + 1
                /\ UNCHANGED <<remote, nextRow, cache>>
        /\ ret' = [NoRet EXCEPT !.op = "add", !.user = t.user, !.online = TRUE,
                                !.outcome = CallOutcome(o), !.response = Response(o),
                                !.id = tempCard.id, !.updates = t.updates,
                                !.entry = t.entry,
                                !.value = IF o = "ok" THEN <<card>> ELSE <<>>,
                                !.before = t.before, !.alone = t.alone,
                                !.earlier = t.earlier]
        /\ UNCHANGED <<online, now, status, sync, applied, offlineIds, calls, passes>>
        /\ Elsewhere

(***************************************************************************)
(* updateCardInCollection                                                  *)
(***************************************************************************)
\* mutant of Merge: the updates are not applied to the cached entry
MergeKeepsCard(card, updates) == card
\* { ...cached[cardIndex], ...updates }
Merge(card, updates) ==
    [card EXCEPT !.quantity = IF updates.quantity = <<>> THEN @ ELSE updates.quantity[1],
                 !.condition = IF updates.condition = <<>> THEN @ ELSE updates.condition[1],
                 !.notes = IF updates.notes = <<>> THEN @ ELSE updates.notes[1]]
\* { quantity: updates.quantity, condition: updates.condition, notes: updates.notes || null }
UpdateData(updates) ==
    [quantity |-> updates.quantity, condition |-> updates.condition,
     notes |-> <<OrNull(IF updates.notes = <<>> THEN Undefined ELSE updates.notes[1])>>]
\* mutant of CardNotFound: the call returns
CardNotFoundReturns == "returned"
\* if (cardIndex === -1) throw new Error('Card not found in collection')
CardNotFound == "raised"
\* the ids a caller can name: those of the entries it sees and of the server's rows
KnownIds(userId) == Ids(CachedOrEmpty(cache, userId)) \cup RowIds(remote)

\* the call, up to its throw (no such entry), to `return updatedCard` (offline)
\* or to the await of the update
UpdateCall(userId, cardId, updates) ==
    LET before == CachedOrEmpty(cache, userId)
        cardIndex == FindIndex(before, cardId)
        updatedCard == Merge(before[cardIndex], updates)
        cached == [before EXCEPT ![cardIndex] = updatedCard]
    IN  /\ calls < MaxCalls
        /\ calls' = calls + 1
        /\ Quiet
        /\ IF cardIndex = 0
           THEN /\ ret' = [NoRet EXCEPT !.op = "update", !.user = userId, !.online = online,
                                        !.outcome = CardNotFound, !.id = cardId,
                                        !.updates = updates, !.before = before, !.alone = (InFlight(tasks) = {})]
                /\ UNCHANGED <<cache, pendingQ, nextChange, tasks>>
           ELSE /\ cache' = setCachedCollection(cache, userId, cached)
                /\ IF ~online
                   THEN /\ pendingQ' = addPendingChange(pendingQ, "update", updatedCard, nextChange)
                        /\ nextChange' = nextChange + 1
                        /\ tasks' = Disturb(tasks)
                        /\ ret' = [NoRet EXCEPT !.op = "update", !.user = userId,
                                                !.outcome = "returned", !.id = cardId,
                                                !.updates = updates,
                                                !.entry = <<updatedCard>>,
                                                !.value = <<updatedCard>>, !.before = before,
                                                !.alone = (InFlight(tasks) = {})]
                           ELSE /\ InFlight(tasks) # Slots
                        /\ tasks' = [Disturb(tasks) EXCEPT ![FreeSlot(tasks)] =
                                        [IdleTask EXCEPT !.op = "update", !.user = userId,
                                                         !.id = cardId, !.cached = cached,
                                                         !.entry = <<updatedCard>>,
                                                         !.cardIndex = cardIndex,
                                                         !.updates = updates, !.before = before,
                                                         !.alone = (InFlight(tasks) = {})]]
                        /\ ret' = NoRet
                        /\ UNCHANGED <<pendingQ, nextChange>>
        /\ UNCHANGED <<online, now, remote, nextRow, status, sync, applied, passes>>
        /\ offlineIds' = IF online \/ pendingQ' = pendingQ THEN offlineIds
                         ELSE offlineIds \cup {nextChange}
        /\ Elsewhere

\* the response of the update (.select().single()): `return card`, or the catch block
UpdateResponse(s, o) ==
    LET t == tasks[s]
        updatedCard == t.entry[1]
        updateData == UpdateData(t.updates)
        rows == RemoteUpdate(remote, t.id, updateData)
        card == collectionCardRowToCollectionCard(RowWithId(rows, t.id))
    IN  /\ t.op = "update"
        /\ o = "ok" => UpdateAccepted(t.id, updateData) /\ t.id \in RowIds(remote)
        /\ tasks' = Overtake(tasks, s, [op |-> "update", id |-> t.id, response |-> Response(o)])
        /\ Quiet
        /\ IF o = "ok"
           THEN /\ remote' = rows
                /\ cache' = setCachedCollection(cache, t.user,
                                                [t.cached EXCEPT ![t.cardIndex] = card])
                /\ UNCHANGED <<pendingQ, nextChange>>
           ELSE /\ pendingQ' = addPendingChange(pendingQ, "update", updatedCard, nextChange)
                /\ nextChange' = nextChange + 1
                /\ UNCHANGED <<remote, cache>>
        /\ ret' = [NoRet EXCEPT !.op = "update", !.user = t.user, !.online = TRUE,
                                !.outcome = CallOutcome(o), !.response = Response(o),
                                !.id = t.id, !.updates = t.updates, !.entry = t.entry,
                                !.value = IF o = "ok" THEN <<card>> ELSE <<>>,
                                !.before = t.before, !.alone = t.alone,
                                !.earlier = t.earlier]
        /\ UNCHANGED <<online, now, nextRow, status, sync, applied, offlineIds, calls, passes>>
        /\ Elsewhere

(***************************************************************************)
(* deleteCardFromCollection                                                *)
(***************************************************************************)
\* cached.find(c => c.id === cardId): <<>> for undefined
Find(cached, cardId) ==
    IF FindIndex(cached, cardId) = 0 THEN <<>> ELSE <<cached[FindIndex(cached, cardId)]>>
\* the catch block's cached.push(cardToDelete), on the array read at the call
RestoreDeleted(cached, cardToDelete) == Append(cached, cardToDelete)

\* the call, up to `return` (offline) or to the await of the delete
DeleteCall(userId, cardId) ==
    LET cached == CachedOrEmpty(cache, userId)
        cardToDelete == Find(cached, cardId)
        filteredCache == WithoutId(cached, cardId)
    IN  /\ calls < MaxCalls
        /\ calls' = calls + 1
        /\ Quiet
        /\ cache' = setCachedCollection(cache, userId, filteredCache)
        /\ IF ~online
           THEN /\ IF cardToDelete # <<>>
                   THEN /\ pendingQ' = addPendingChange(pendingQ, "delete", cardToDelete[1],
                                                        nextChange)
                        /\ nextChange' = nextChange + 1
                   ELSE UNCHANGED <<pendingQ, nextChange>>
                /\ tasks' = Disturb(tasks)
                /\ ret' = [NoRet EXCEPT !.op = "delete", !.user = userId,
                                        !.outcome = "returned", !.id = cardId,
                                        !.entry = cardToDelete, !.before = cached,
                                        !.alone = (InFlight(tasks) = {})]
           ELSE /\ InFlight(tasks) # Slots
                /\ tasks' = [Disturb(tasks) EXCEPT ![FreeSlot(tasks)] =
                                [IdleTask EXCEPT !.op = "delete", !.user = userId,
                                                 !.id = cardId, !.cached = cached,
                                                 !.entry = cardToDelete, !.before = cached,
                                                 !.alone = (InFlight(tasks) = {})]]
                /\ ret' = NoRet
                /\ UNCHANGED <<pendingQ, nextChange>>
        /\ UNCHANGED <<online, now, remote, nextRow, status, sync, applied, passes>>
        /\ offlineIds' = IF online \/ pendingQ' = pendingQ THEN offlineIds
                         ELSE offlineIds \cup {nextChange}
        /\ Elsewhere

\* the response of the delete: `return`, or the catch block
DeleteResponse(s, o) ==
    LET t == tasks[s]
    IN  /\ t.op = "delete"
        /\ o = "ok" => DeleteAccepted(t.id)
        /\ tasks' = Overtake(tasks, s, [op |-> "delete", id |-> t.id, response |-> Response(o)])
        /\ Quiet
        /\ IF o = "ok"
           THEN /\ remote' = RemoteDelete(remote, t.id)
                /\ UNCHANGED <<cache, pendingQ, nextChange>>
           ELSE /\ IF t.entry # <<>>
                   THEN /\ cache' = setCachedCollection(cache, t.user,
                                                        RestoreDeleted(t.cached, t.entry[1]))
                        /\ pendingQ' = addPendingChange(pendingQ, "delete", t.entry[1],
                                                        nextChange)
                        /\ nextChange' = nextChange + 1
                   ELSE UNCHANGED <<cache, pendingQ, nextChange>>
                /\ UNCHANGED remote
        /\ ret' = [NoRet EXCEPT !.op = "delete", !.user = t.user, !.online = TRUE,
                                !.outcome = CallOutcome(o), !.response = Response(o),
                                !.id = t.id, !.entry = t.entry, !.before = t.before,
                                !.alone = t.alone, !.earlier = t.earlier]
        /\ UNCHANGED <<online, now, nextRow, status, sync, applied, offlineIds, calls, passes>>
        /\ Elsewhere

(***************************************************************************)
(* syncPendingChanges                                                      *)
(***************************************************************************)
\* mutant of Notify: no listener is called
NotifyNobody(box, ls, sts) == box
\* syncListeners.forEach(listener => listener(status)), for each status of sts
Notify(box, ls, sts) ==
    [l \in Listeners |-> IF l \in ls THEN box[l] \o sts ELSE box[l]]
\* the setSyncStatus calls of a step, in order: currentSyncStatus ends as the
\* last of them
setSyncStatus(sts) ==
    /\ status' = sts[Len(sts)]
    /\ inbox' = Notify(inbox, listeners, sts)
    /\ lastSet' = sts
\* a step that does not call setSyncStatus
NoStatus ==
    /\ lastSet' = <<>>
    /\ UNCHANGED <<status, inbox>>
getSyncStatus == status

\* mutant of ReplayUpdateData: the quantity is left out of the payload
ReplayUpdateDataNoQuantity(card) ==
    [quantity |-> <<>>, condition |-> <<card.condition>>, notes |-> <<OrNull(card.notes)>>]
\* the update payload of a replayed update
ReplayUpdateData(card) ==
    [quantity |-> <<card.quantity>>, condition |-> <<card.condition>>,
     notes |-> <<OrNull(card.notes)>>]
\* the Remote Store after the request of a replayed change has been applied
ReplayApplied(rows, change, n) ==
    CASE change.type = "add" -> RemoteInsert(rows, collectionCardToRow(change.data), n)
      [] change.type = "update" -> RemoteUpdate(rows, change.data.id, ReplayUpdateData(change.data))
      [] change.type = "delete" -> RemoteDelete(rows, change.data.id)
\* whether the server can answer the request of a replayed change with "ok"
ReplayAccepted(change) ==
    CASE change.type = "add" -> InsertAccepted(collectionCardToRow(change.data))
      [] change.type = "update" -> UpdateAccepted(change.data.id, ReplayUpdateData(change.data))
      [] change.type = "delete" -> DeleteAccepted(change.data.id)
\* the result of an awaited request is not inspected: only a rejected promise
\* leaves the loop
LeavesLoop(o) == o = "throw"

\* the call, up to one of its early returns or to the await of the first request
SyncCall ==
    LET pending == getPendingChanges(pendingQ)
    IN  /\ sync.pc = "idle"
        /\ full.pc = "idle"
        /\ passes < MaxPasses
        /\ passes' = passes + 1
        /\ IF ~online
           THEN /\ setSyncStatus(<<"offline">>)
                /\ ret' = [NoRet EXCEPT !.op = "sync", !.outcome = "returned"]
                /\ UNCHANGED sync
           ELSE IF Len(pending) = 0
           THEN /\ ret' = [NoRet EXCEPT !.op = "sync", !.online = TRUE, !.outcome = "returned"]
                /\ NoStatus
                /\ UNCHANGED sync
           ELSE /\ setSyncStatus(<<"syncing">>)
                /\ sync' = [pc |-> "await", pending |-> pending, i |-> 1, results |-> <<>>]
                /\ ret' = NoRet
        /\ UNCHANGED <<online, now, cache, pendingQ, remote, nextRow, nextChange, tasks,
                       applied, offlineIds, calls, usersCache, read, full, listeners,
                       subs, created>>
        /\ Elsewhere

\* fullSync once `await syncPendingChanges()` has returned, the pass having
\* set the statuses sts: syncUsersFromServer up to the await of its fetch or,
\* offline, syncUsersFromServer and syncCollectionFromServer to the end
AfterReplay(sts, results, done, fdone) ==
    IF online
    THEN /\ setSyncStatus(sts)
         /\ full' = [full EXCEPT !.pc = "users", !.results = results]
         /\ ret' = [done EXCEPT !.outcome = "returned"]
    ELSE IF getCachedUsers(usersCache).present /\ getCachedCollection(cache, full.user).present
    THEN /\ setSyncStatus(sts \o <<"idle">>)
         /\ full' = IdleFull
         /\ ret' = [fdone EXCEPT !.outcome = "returned"]
    ELSE /\ setSyncStatus(sts \o <<"error">>)
         /\ full' = IdleFull
         /\ ret' = [fdone EXCEPT !.outcome = "raised"]

\* the response of the request of pending[i]: the catch block, the next
\* iteration up to its await, or the end of the loop and of the pass; when the
\* pass was called by fullSync, fullSync goes on in the same step
SyncResponse(o) ==
    LET change == sync.pending[sync.i]
        results == Append(sync.results, o)
        done == [NoRet EXCEPT !.op = "sync", !.online = TRUE, !.pending = sync.pending,
                              !.results = results]
        fdone == [done EXCEPT !.op = "full", !.user = full.user]
    IN  /\ sync.pc = "await"
        /\ o = "ok" => ReplayAccepted(change)
        /\ IF o = "ok"
           THEN /\ remote' = ReplayApplied(remote, change, nextRow)
                /\ nextRow' = IF change.type = "add" THEN nextRow + 1 ELSE nextRow
                /\ applied' = applied \cup {change.id}
                /\ created' = IF change.type = "add" THEN created \cup {<<change.id, nextRow>>}
                              ELSE created
           ELSE UNCHANGED <<remote, nextRow, applied, created>>
        /\ IF LeavesLoop(o)
           THEN /\ sync' = IdleSync
                /\ UNCHANGED pendingQ
                /\ IF full.pc = "replay"
                   THEN /\ setSyncStatus(<<"error", "error">>)
                        /\ full' = IdleFull
                        /\ ret' = [fdone EXCEPT !.outcome = "raised"]
                   ELSE /\ setSyncStatus(<<"error">>)
                        /\ ret' = [done EXCEPT !.outcome = "raised"]
                        /\ UNCHANGED full
           ELSE IF sync.i = Len(sync.pending)
           THEN /\ pendingQ' = clearPendingChanges(pendingQ)
                /\ sync' = IdleSync
                /\ IF full.pc = "replay"
                   THEN AfterReplay(<<"idle">>, results, done, fdone)
                   ELSE /\ setSyncStatus(<<"idle">>)
                        /\ ret' = [done EXCEPT !.outcome = "returned"]
                        /\ UNCHANGED full
           ELSE /\ sync' = [sync EXCEPT !.i = @ + 1, !.results = results]
                /\ ret' = NoRet
                /\ NoStatus
                /\ UNCHANGED <<pendingQ, full>>
        /\ UNCHANGED <<online, now, cache, nextChange, tasks, offlineIds, calls, passes,
                       usersCache, read, listeners, subs>>
        /\ Elsewhere

(***************************************************************************)
(* syncCollectionFromServer and syncUsersFromServer                        *)
(***************************************************************************)
\* the call, up to its offline return or throw or to the await of the fetch
CollectionCall(userId) ==
    LET cached == getCachedCollection(cache, userId)
        r == [NoRet EXCEPT !.op = "syncCollection", !.user = userId]
    IN  /\ read.pc = "idle"
        /\ IF ~online
           THEN /\ ret' = IF cached.present
                          THEN [r EXCEPT !.outcome = "returned", !.value = <<cached.cards>>]
                          ELSE [r EXCEPT !.outcome = "raised"]
                /\ UNCHANGED read
           ELSE /\ read' = [pc |-> "await", fn |-> "collection", user |-> userId]
                /\ ret' = NoRet
        /\ NoStatus
        /\ UNCHANGED <<online, now, cache, pendingQ, remote, nextRow, nextChange, tasks, sync,
                       applied, offlineIds, calls, passes, usersCache, full, listeners,
                       subs, created>>
        /\ Elsewhere

\* the response of the fetch: the cache is overwritten, or the catch block
CollectionResponse(o) ==
    LET userId == read.user
        cards == FetchCollection(remote, userId)
        cached == getCachedCollection(cache, userId)
        r == [NoRet EXCEPT !.op = "syncCollection", !.user = userId, !.online = TRUE,
                           !.response = Response(o)]
    IN  /\ read.pc = "await"
        /\ read.fn = "collection"
        /\ read' = IdleRead
        /\ IF o = "ok"
           THEN /\ cache' = setCachedCollection(cache, userId, cards)
                /\ ret' = [r EXCEPT !.outcome = "returned", !.value = <<cards>>]
           ELSE /\ ret' = IF cached.present
                          THEN [r EXCEPT !.outcome = "returned", !.value = <<cached.cards>>]
                          ELSE [r EXCEPT !.outcome = "raised"]
                /\ UNCHANGED cache
        /\ NoStatus
        /\ UNCHANGED <<online, now, pendingQ, remote, nextRow, nextChange, tasks, sync,
                       applied, offlineIds, calls, passes, usersCache, full, listeners,
                       subs, created>>
        /\ Elsewhere

UsersCall ==
    LET cached == getCachedUsers(usersCache)
        r == [NoRet EXCEPT !.op = "syncUsers"]
    IN  /\ read.pc = "idle"
        /\ IF ~online
           THEN /\ ret' = IF cached.present
                          THEN [r EXCEPT !.outcome = "returned", !.value = <<cached.users>>]
                          ELSE [r EXCEPT !.outcome = "raised"]
                /\ UNCHANGED read
           ELSE /\ read' = [pc |-> "await", fn |-> "users", user |-> ""]
                /\ ret' = NoRet
        /\ NoStatus
        /\ UNCHANGED <<online, now, cache, pendingQ, remote, nextRow, nextChange, tasks, sync,
                       applied, offlineIds, calls, passes, usersCache, full, listeners,
                       subs, created>>
        /\ Elsewhere

UsersResponse(o) ==
    LET cached == getCachedUsers(usersCache)
        r == [NoRet EXCEPT !.op = "syncUsers", !.online = TRUE, !.response = Response(o)]
    IN  /\ read.pc = "await"
        /\ read.fn = "users"
        /\ read' = IdleRead
        /\ IF o = "ok"
           THEN /\ usersCache' = setCachedUsers(FetchUsers)
                /\ ret' = [r EXCEPT !.outcome = "returned", !.value = <<FetchUsers>>]
           ELSE /\ ret' = IF cached.present
                          THEN [r EXCEPT !.outcome = "returned", !.value = <<cached.users>>]
                          ELSE [r EXCEPT !.outcome = "raised"]
                /\ UNCHANGED usersCache
        /\ NoStatus
        /\ UNCHANGED <<online, now, cache, pendingQ, remote, nextRow, nextChange, tasks, sync,
                       applied, offlineIds, calls, passes, full, listeners, subs, created>>
        /\ Elsewhere

(***************************************************************************)
(* fullSync                                                                *)
(***************************************************************************)
\* the call: its offline return, or setSyncStatus('syncing') and
\* syncPendingChanges up to the await of its first request or, the queue
\* being empty, syncUsersFromServer up to the await of its fetch
FullCall(userId) ==
    LET pending == getPendingChanges(pendingQ)
    IN  /\ full.pc = "idle"
        /\ sync.pc = "idle"
        /\ passes < MaxPasses
        /\ passes' = passes + 1
        /\ IF ~online
           THEN /\ setSyncStatus(<<"offline">>)
                /\ ret' = [NoRet EXCEPT !.op = "full", !.user = userId, !.outcome = "returned"]
                /\ UNCHANGED <<full, sync>>
           ELSE IF Len(pending) = 0
           THEN /\ setSyncStatus(<<"syncing">>)
                /\ full' = [pc |-> "users", user |-> userId, results |-> <<>>]
                /\ ret' = NoRet
                /\ UNCHANGED sync
           ELSE /\ setSyncStatus(<<"syncing", "syncing">>)
                /\ full' = [pc |-> "replay", user |-> userId, results |-> <<>>]
                /\ sync' = [pc |-> "await", pending |-> pending, i |-> 1, results |-> <<>>]
                /\ ret' = NoRet
        /\ UNCHANGED <<online, now, cache, pendingQ, remote, nextRow, nextChange, tasks,
                       applied, offlineIds, calls, usersCache, read, listeners, subs, created>>
        /\ Elsewhere

\* the response of the fetch of syncUsersFromServer, then
\* syncCollectionFromServer up to the await of its fetch or, offline, to its end
FullUsersResponse(o) ==
    LET userId == full.user
        fdone == [NoRet EXCEPT !.op = "full", !.user = userId, !.online = TRUE,
                               !.results = full.results]
    IN  /\ full.pc = "users"
        /\ usersCache' = IF o = "ok" THEN setCachedUsers(FetchUsers) ELSE usersCache
        /\ IF Failed(o) /\ ~getCachedUsers(usersCache).present
           THEN /\ setSyncStatus(<<"error">>)
                /\ full' = IdleFull
                /\ ret' = [fdone EXCEPT !.outcome = "raised"]
           ELSE IF online
           THEN /\ NoStatus
                /\ full' = [full EXCEPT !.pc = "collection"]
                /\ ret' = NoRet
           ELSE IF getCachedCollection(cache, userId).present
           THEN /\ setSyncStatus(<<"idle">>)
                /\ full' = IdleFull
                /\ ret' = [fdone EXCEPT !.outcome = "returned"]
           ELSE /\ setSyncStatus(<<"error">>)
                /\ full' = IdleFull
                /\ ret' = [fdone EXCEPT !.outcome = "raised"]
        /\ UNCHANGED <<online, now, cache, pendingQ, remote, nextRow, nextChange, tasks, sync,
                       applied, offlineIds, calls, passes, read, listeners, subs, created>>
        /\ Elsewhere

\* the response of the fetch of syncCollectionFromServer, to the end of fullSync
FullCollectionResponse(o) ==
    LET userId == full.user
        fdone == [NoRet EXCEPT !.op = "full", !.user = userId, !.online = TRUE,
                               !.results = full.results]
    IN  /\ full.pc = "collection"
        /\ full' = IdleFull
        /\ cache' = IF o = "ok"
                    THEN setCachedCollection(cache, userId, FetchCollection(remote, userId))
                    ELSE cache
        /\ IF Failed(o) /\ ~getCachedCollection(cache, userId).present
           THEN /\ setSyncStatus(<<"error">>)
                /\ ret' = [fdone EXCEPT !.outcome = "raised"]
           ELSE /\ setSyncStatus(<<"idle">>)
                /\ ret' = [fdone EXCEPT !.outcome = "returned"]
        /\ UNCHANGED <<online, now, pendingQ, remote, nextRow, nextChange, tasks, sync,
                       applied, offlineIds, calls, passes, usersCache, read, listeners,
                       subs, created>>
        /\ Elsewhere

(***************************************************************************)
(* onSyncStatusChange                                                      *)
(***************************************************************************)
UnusedHandle ==
    CHOOSE h \in Handles :
        subs[h].state = "unused" /\ \A k \in 1..(h - 1) : subs[k].state # "unused"

\* onSyncStatusChange(callback): syncListeners.add(callback); the closure
\* returned is the handle
Subscribe(callback) ==
    /\ \E h \in Handles : subs[h].state = "unused"
    /\ listeners' = listeners \cup {callback}
    /\ subs' = [h \in Handles |->
                  IF h = UnusedHandle THEN [cb |-> callback, state |-> "active"]
                  ELSE IF subs[h].cb = callback /\ subs[h].state = "called"
                  THEN [subs[h] EXCEPT !.state = "old"]
                  ELSE subs[h]]
    /\ ret' = NoRet
    /\ NoStatus
    /\ UNCHANGED <<online, now, cache, pendingQ, remote, nextRow, nextChange, tasks, sync,
                   applied, offlineIds, calls, passes, usersCache, read, full, created>>
    /\ Elsewhere

\* a call of a handle, the first or a later one: syncListeners.delete(callback)
Unsubscribe(h) ==
    /\ subs[h].state # "unused"
    /\ listeners' = listeners \ {subs[h].cb}
    /\ subs' = [subs EXCEPT ![h].state = "called"]
    /\ ret' = NoRet
    /\ NoStatus
    /\ UNCHANGED <<online, now, cache, pendingQ, remote, nextRow, nextChange, tasks, sync,
                   applied, offlineIds, calls, passes, usersCache, read, full, created>>
    /\ Elsewhere

(***************************************************************************)
(* The specification.                                                      *)
(***************************************************************************)
Next ==
    \/ GoOnline
    \/ GoOffline
    \/ Tick
    \/ \E u \in Selected, in \in AddInputs : AddCall(u, in)
    \/ \E s \in Slots, o \in Outcomes : AddResponse(s, o)
    \/ \E u \in Selected, up \in UpdateInputs : \E id \in KnownIds(u) : UpdateCall(u, id, up)
    \/ \E s \in Slots, o \in Outcomes : UpdateResponse(s, o)
    \/ \E u \in Selected : \E id \in KnownIds(u) : DeleteCall(u, id)
    \/ \E s \in Slots, o \in Outcomes : DeleteResponse(s, o)
    \/ SyncCall
    \/ \E o \in Outcomes : SyncResponse(o)

Spec == Init /\ [][Next]_vars

(***************************************************************************)
(* The reads.  The behaviour starts with a row of the other profile in the *)
(* Remote Store; both profiles are read, the selected one is mutated.      *)
(***************************************************************************)
OtherRow ==
    [id |-> ServerId(1), user_id |-> "p2", card_id |-> "xy1-1", quantity |-> 3,
     condition |-> "mint", notes |-> Null]
InitRead ==
    /\ online \in BOOLEAN
    /\ now = 0
    /\ cache = [u \in Users |-> [present |-> FALSE, cards |-> <<>>]]
    /\ pendingQ = <<>>
    /\ remote = {OtherRow}
    /\ nextRow = 2
    /\ nextChange = 1
    /\ status = "idle"
    /\ tasks = [s \in Slots |-> IdleTask]
    /\ sync = IdleSync
    /\ ret = NoRet
    /\ applied = {}
    /\ offlineIds = {}
    /\ calls = 0
    /\ passes = 0
    /\ usersCache = NoUsers
    /\ read = IdleRead
    /\ full = IdleFull
    /\ listeners = {}
    /\ inbox = [l \in Listeners |-> <<>>]
    /\ subs = [h \in Handles |-> NoSub]
    /\ lastSet = <<>>
    /\ created = {}
    /\ InitElsewhere
NextRead ==
    \/ GoOnline
    \/ GoOffline
    \/ \E u \in Selected, in \in AddInputs : AddCall(u, in)
    \/ \E s \in Slots, o \in Outcomes : AddResponse(s, o)
    \/ \E u \in Selected : \E id \in KnownIds(u) : DeleteCall(u, id)
    \/ \E s \in Slots, o \in Outcomes : DeleteResponse(s, o)
    \/ \E u \in Users : CollectionCall(u)
    \/ \E o \in Outcomes : CollectionResponse(o)
    \/ UsersCall
    \/ \E o \in Outcomes : UsersResponse(o)
SpecRead == InitRead /\ [][NextRead]_vars

(***************************************************************************)
(* fullSync and the replay pass.                                           *)
(***************************************************************************)
NextFull ==
    \/ GoOnline
    \/ GoOffline
    \/ \E u \in Selected, in \in AddInputs : AddCall(u, in)
    \/ \E s \in Slots, o \in Outcomes : AddResponse(s, o)
    \/ SyncCall
    \/ \E o \in Outcomes : SyncResponse(o)
    \/ \E u \in Selected : FullCall(u)
    \/ \E o \in Outcomes : FullUsersResponse(o)
    \/ \E o \in Outcomes : FullCollectionResponse(o)
SpecFull == Init /\ [][NextFull]_vars

(***************************************************************************)
(* Updates and deletes of an entry that is cached and stored: the          *)
(* behaviour starts in the state an online addCardToCollection leaves.     *)
(***************************************************************************)
SyncedRow ==
    [id |-> ServerId(1), user_id |-> "p1", card_id |-> "base1-4", quantity |-> 1,
     condition |-> "near-mint", notes |-> Null]
InitSynced ==
    /\ online \in BOOLEAN
    /\ now = 0
    /\ cache = [u \in Users |->
                  IF u = "p1"
                  THEN [present |-> TRUE,
                        cards |-> <<collectionCardRowToCollectionCard(SyncedRow)>>]
                  ELSE [present |-> FALSE, cards |-> <<>>]]
    /\ pendingQ = <<>>
    /\ remote = {SyncedRow}
    /\ nextRow = 2
    /\ nextChange = 1
    /\ status = "idle"
    /\ tasks = [s \in Slots |-> IdleTask]
    /\ sync = IdleSync
    /\ ret = NoRet
    /\ applied = {}
    /\ offlineIds = {}
    /\ calls = 0
    /\ passes = 0
    /\ usersCache = NoUsers
    /\ read = IdleRead
    /\ full = IdleFull
    /\ listeners = {}
    /\ inbox = [l \in Listeners |-> <<>>]
    /\ subs = [h \in Handles |-> NoSub]
    /\ lastSet = <<>>
    /\ created = {}
    /\ InitElsewhere
NextSynced ==
    \/ GoOnline
    \/ GoOffline
    \/ \E u \in Selected, up \in UpdateInputs : \E id \in KnownIds(u) : UpdateCall(u, id, up)
    \/ \E s \in Slots, o \in Outcomes : UpdateResponse(s, o)
    \/ \E u \in Selected : \E id \in KnownIds(u) : DeleteCall(u, id)
    \/ \E s \in Slots, o \in Outcomes : DeleteResponse(s, o)
SpecSynced == InitSynced /\ [][NextSynced]_vars

(***************************************************************************)
(* The status listeners: the behaviour starts in the state an offline      *)
(* addCardToCollection leaves (one add queued).                            *)
(***************************************************************************)
QueuedCard ==
    [id |-> TempId(0), userId |-> "p1", cardId |-> "base1-4", quantity |-> 1,
     condition |-> "near-mint", notes |-> Undefined]
InitQueued ==
    /\ online \in BOOLEAN
    /\ now = 0
    /\ cache = [u \in Users |->
                  IF u = "p1" THEN [present |-> TRUE, cards |-> <<QueuedCard>>]
                  ELSE [present |-> FALSE, cards |-> <<>>]]
    /\ pendingQ = addPendingChange(<<>>, "add", QueuedCard, 1)
    /\ remote = {}
    /\ nextRow = 1
    /\ nextChange = 2
    /\ status = "idle"
    /\ tasks = [s \in Slots |-> IdleTask]
    /\ sync = IdleSync
    /\ ret = NoRet
    /\ applied = {}
    /\ offlineIds = {1}
    /\ calls = 0
    /\ passes = 0
    /\ usersCache = NoUsers
    /\ read = IdleRead
    /\ full = IdleFull
    /\ listeners = {}
    /\ inbox = [l \in Listeners |-> <<>>]
    /\ subs = [h \in Handles |-> NoSub]
    /\ lastSet = <<>>
    /\ created = {}
    /\ InitElsewhere
NextStatus ==
    \/ GoOnline
    \/ GoOffline
    \/ SyncCall
    \/ \E o \in Outcomes : SyncResponse(o)
    \/ \E u \in Selected : FullCall(u)
    \/ \E o \in Outcomes : FullUsersResponse(o)
    \/ \E o \in Outcomes : FullCollectionResponse(o)
    \/ \E l \in Listeners : Subscribe(l)
    \/ \E h \in Handles : Unsubscribe(h)
SpecStatus == InitQueued /\ [][NextStatus]_vars

(***************************************************************************)
(* The catalog client: searchCards, getCardById, getCardsByIds.  A call    *)
(* runs to its return from the cache or to the await of its fetch; the     *)
(* response of the fetch runs it to its end.                               *)
(***************************************************************************)
\* the fetch succeeds (response.ok), or it fails: the promise rejects or the
\* status is not ok; both are thrown on by handleApiError
ApiOutcomes == {"ok", "failed"}
\* history: the catalog call that has just ended, with its argument
CatalogRet(op, arg, outcome, value, response) ==
    [op |-> op, arg |-> arg, outcome |-> outcome, value |-> value, response |-> response]
\* a step of the catalog, of the storage or of debounce leaves the sync layer
\* alone
SyncLayerIdle ==
    UNCHANGED <<online, cache, pendingQ, remote, nextRow, nextChange, status, tasks, sync,
                applied, offlineIds, calls, passes, usersCache, read, full, listeners,
                inbox, subs, lastSet, created>>

\* time passes
Elapse ==
    /\ \E t \in Instants : t > now /\ now' = t
    /\ ret' = NoRet
    /\ SyncLayerIdle
    /\ UNCHANGED <<searchCache, cardCache, api, storage, deb>>

\* searchCards(query), up to `return cached` or to the await of the fetch
SearchCall(query) ==
    LET cached == getCachedSearch(storage, searchCache, now, query)
    IN  /\ api.pc = "idle"
        /\ searchCache' = SearchCacheAfter(storage, searchCache, now, query)
        /\ IF cached.v # <<>>
           THEN /\ ret' = CatalogRet("searchCards", query, "returned", cached.v, "none")
                /\ UNCHANGED api
           ELSE /\ api' = [IdleApi EXCEPT !.pc = "await", !.fn = "searchCards",
                                          !.query = query,
                                          !.stale = (searchCache' # searchCache)]
                /\ ret' = NoRet
        /\ SyncLayerIdle
        /\ UNCHANGED <<now, cardCache, storage, deb>>

\* the response of the search: both caches are written, or the error is raised
SearchResponse(o) ==
    LET data == ApiSearch(api.query)
    IN  /\ api.pc = "await"
        /\ api.fn = "searchCards"
        /\ api' = IdleApi
        /\ IF o = "ok"
           THEN /\ searchCache' = setCachedSearch(storage, searchCache, now, api.query, data)
                /\ cardCache' = setCachedCards(storage, cardCache, now, data)
                /\ ret' = CatalogRet("searchCards", api.query, "returned", <<data>>, "ok")
           ELSE /\ ret' = CatalogRet("searchCards", api.query, "raised", <<>>, "failed")
                /\ UNCHANGED <<searchCache, cardCache>>
        /\ SyncLayerIdle
        /\ UNCHANGED <<now, storage, deb>>

\* getCardById(cardId), up to `return cached` or to the await of the fetch
CardCall(cardId) ==
    LET cached == getCachedCard(storage, cardCache, now, cardId)
    IN  /\ api.pc = "idle"
        /\ cardCache' = CardCacheAfter(storage, cardCache, now, cardId)
        /\ IF cached.v # <<>>
           THEN /\ ret' = CatalogRet("getCardById", cardId, "returned", cached.v, "none")
                /\ UNCHANGED api
           ELSE /\ api' = [IdleApi EXCEPT !.pc = "await", !.fn = "getCardById",
                                          !.ids = <<cardId>>,
                                          !.stale = (cardCache' # cardCache)]
                /\ ret' = NoRet
        /\ SyncLayerIdle
        /\ UNCHANGED <<now, searchCache, storage, deb>>

CardResponse(o) ==
    LET data == PokemonCard(api.ids[1])
    IN  /\ api.pc = "await"
        /\ api.fn = "getCardById"
        /\ api' = IdleApi
        /\ IF o = "ok"
           THEN /\ cardCache' = setCachedCard(storage, cardCache, now, data)
                /\ ret' = CatalogRet("getCardById", api.ids[1], "returned", <<data>>, "ok")
           ELSE /\ ret' = CatalogRet("getCardById", api.ids[1], "raised", <<>>, "failed")
                /\ UNCHANGED cardCache
        /\ SyncLayerIdle
        /\ UNCHANGED <<now, searchCache, storage, deb>>

\* the forEach of getCardsByIds: the cached cards and the ids that are not
\* validly cached, both in the order of cardIds
CachedCards(st, cc, t, cardIds) ==
    LET valid(id) == getCachedCard(st, cc, t, id).v # <<>>
        hits == SelectSeq(cardIds, valid)
    IN  [i \in 1..Len(hits) |-> getCachedCard(st, cc, t, hits[i]).v[1]]
\* mutant of UncachedIds: every requested id is fetched
UncachedIdsAll(st, cc, t, cardIds) == cardIds
UncachedIds(st, cc, t, cardIds) ==
    LET missing(id) == getCachedCard(st, cc, t, id).v = <<>>
    IN  SelectSeq(cardIds, missing)

\* getCardsByIds(cardIds), up to `return cachedCards` or to the await of the
\* one fetch of the uncached ids
CardsCall(cardIds) ==
    LET cachedCards == CachedCards(storage, cardCache, now, cardIds)
        uncachedIds == UncachedIds(storage, cardCache, now, cardIds)
    IN  /\ api.pc = "idle"
        /\ cardCache' = [id \in CardIds |->
                            IF id \in Range(cardIds)
                            THEN CardCacheAfter(storage, cardCache, now, id)[id]
                            ELSE cardCache[id]]
        /\ IF uncachedIds = <<>>
           THEN /\ ret' = CatalogRet("getCardsByIds", cardIds, "returned", <<cachedCards>>,
                                     "none")
                /\ UNCHANGED api
           ELSE /\ api' = [IdleApi EXCEPT !.pc = "await", !.fn = "getCardsByIds",
                                          !.ids = cardIds, !.uncached = uncachedIds,
                                          !.cached = cachedCards,
                                          !.stale = (cardCache' # cardCache)]
                /\ ret' = NoRet
        /\ SyncLayerIdle
        /\ UNCHANGED <<now, searchCache, storage, deb>>

\* the response of the batch: the fetched cards are cached and returned behind
\* the cached ones, or the error is raised
CardsResponse(o) ==
    LET data == ApiCards(Range(api.uncached))
    IN  /\ api.pc = "await"
        /\ api.fn = "getCardsByIds"
        /\ api' = IdleApi
        /\ IF o = "ok"
           THEN /\ cardCache' = setCachedCards(storage, cardCache, now, data)
                /\ ret' = CatalogRet("getCardsByIds", api.ids, "returned",
                                     <<api.cached \o data>>, "ok")
           ELSE /\ ret' = CatalogRet("getCardsByIds", api.ids, "raised", <<>>, "failed")
                /\ UNCHANGED cardCache
        /\ SyncLayerIdle
        /\ UNCHANGED <<now, searchCache, storage, deb>>

InitCatalog == Init /\ online
NextCatalog ==
    \/ Elapse
    \/ \E q \in Queries : SearchCall(q)
    \/ \E o \in ApiOutcomes : SearchResponse(o)
    \/ \E id \in CardIds : CardCall(id)
    \/ \E o \in ApiOutcomes : CardResponse(o)
    \/ \E ids \in IdLists : CardsCall(ids)
    \/ \E o \in ApiOutcomes : CardsResponse(o)
SpecCatalog == InitCatalog /\ [][NextCatalog]_vars

(***************************************************************************)
(* The Local Cache Store over a storage that can fail: localStorage may    *)
(* be unavailable (every call of it throws) and a key may hold a text that *)
(* JSON.parse refuses.  Every accessor is one step.                        *)
(***************************************************************************)
\* the collection a profile's cache is given
StorageCard(userId) ==
    TempCard(userId, [cardId |-> "base1-4", quantity |-> 1, condition |-> "near-mint",
                      notes |-> Undefined], 0)
\* the card ids passed to the card accessors
StoredCardIds == {"c1", "c2"}
\* the accessors leave the rest of the sync layer alone
SyncLayerRest ==
    UNCHANGED <<online, remote, nextRow, status, tasks, sync, applied, offlineIds, calls,
                passes, read, full, listeners, inbox, subs, lastSet, created>>
\* how an accessor ends
Ended(r) == IF r.threw THEN "raised" ELSE "returned"

\* the storage becomes unavailable, or available again
StorageAvailability(mode) ==
    /\ storage.mode # mode
    /\ storage' = [storage EXCEPT !.mode = mode]
    /\ ret' = NoRet
    /\ SyncLayerRest
    /\ UNCHANGED <<now, cache, pendingQ, nextChange, usersCache, searchCache, cardCache,
                   api, deb>>
\* the item of the key is replaced by a text that is not JSON
StorageCorrupted(key) ==
    /\ storage.mode = "ok"
    /\ key \notin storage.corrupt
    /\ Cardinality(storage.corrupt) < MaxCorrupt
    /\ storage' = [storage EXCEPT !.corrupt = @ \cup {key}]
    /\ ret' = NoRet
    /\ SyncLayerRest
    /\ UNCHANGED <<now, cache, pendingQ, nextChange, usersCache, searchCache, cardCache,
                   api, deb>>

GetCachedUsers ==
    LET r == getCachedUsersFrom(storage, usersCache)
    IN  /\ ret' = CatalogRet("getCachedUsers", "users", Ended(r), r.v, "none")
        /\ SyncLayerRest
        /\ UNCHANGED <<now, cache, pendingQ, nextChange, usersCache, searchCache,
                       cardCache, api, storage, deb>>
SetCachedUsers ==
    LET w == setCachedUsersIn(storage, usersCache, FetchUsers)
    IN  /\ usersCache' = w.after
        /\ storage' = Written(storage, "users")
        /\ ret' = CatalogRet("setCachedUsers", "users", Ended(w), <<>>, "none")
        /\ SyncLayerRest
        /\ UNCHANGED <<now, cache, pendingQ, nextChange, searchCache, cardCache, api, deb>>
GetCachedCollection(userId) ==
    LET r == getCachedCollectionFrom(storage, cache, userId)
    IN  /\ ret' = CatalogRet("getCachedCollection", "collection", Ended(r), r.v, "none")
        /\ SyncLayerRest
        /\ UNCHANGED <<now, cache, pendingQ, nextChange, usersCache, searchCache,
                       cardCache, api, storage, deb>>
SetCachedCollection(userId) ==
    LET w == setCachedCollectionIn(storage, cache, userId, <<StorageCard(userId)>>)
    IN  /\ cache' = w.after
        /\ storage' = IF w.threw THEN storage ELSE Written(storage, "collection")
        /\ ret' = CatalogRet("setCachedCollection", "collection", Ended(w), <<>>, "none")
        /\ SyncLayerRest
        /\ UNCHANGED <<now, pendingQ, nextChange, usersCache, searchCache, cardCache, api,
                       deb>>
GetCachedSearch(query) ==
    LET r == getCachedSearch(storage, searchCache, now, query)
    IN  /\ searchCache' = IF r.threw THEN searchCache
                          ELSE SearchCacheAfter(storage, searchCache, now, query)
        /\ ret' = CatalogRet("getCachedSearch", toLowerCase(query), Ended(r), r.v, "none")
        /\ SyncLayerRest
        /\ UNCHANGED <<now, cache, pendingQ, nextChange, usersCache, cardCache, api,
                       storage, deb>>
SetCachedSearch(query) ==
    /\ searchCache' = setCachedSearch(storage, searchCache, now, query, ApiSearch(query))
    /\ storage' = Written(storage, toLowerCase(query))
    /\ ret' = CatalogRet("setCachedSearch", toLowerCase(query), "returned", <<>>, "none")
    /\ SyncLayerRest
    /\ UNCHANGED <<now, cache, pendingQ, nextChange, usersCache, cardCache, api, deb>>
GetCachedCard(cardId) ==
    LET r == getCachedCard(storage, cardCache, now, cardId)
    IN  /\ cardCache' = IF r.threw THEN cardCache
                        ELSE CardCacheAfter(storage, cardCache, now, cardId)
        /\ ret' = CatalogRet("getCachedCard", cardId, Ended(r), r.v, "none")
        /\ SyncLayerRest
        /\ UNCHANGED <<now, cache, pendingQ, nextChange, usersCache, searchCache, api,
                       storage, deb>>
SetCachedCard(cardId) ==
    /\ cardCache' = setCachedCard(storage, cardCache, now, PokemonCard(cardId))
    /\ storage' = Written(storage, cardId)
    /\ ret' = CatalogRet("setCachedCard", cardId, "returned", <<>>, "none")
    /\ SyncLayerRest
    /\ UNCHANGED <<now, cache, pendingQ, nextChange, usersCache, searchCache, api, deb>>
GetPendingChanges ==
    LET r == getPendingChangesFrom(storage, pendingQ)
    IN  /\ ret' = CatalogRet("getPendingChanges", "pending", Ended(r), r.v, "none")
        /\ SyncLayerRest
        /\ UNCHANGED <<now, cache, pendingQ, nextChange, usersCache, searchCache,
                       cardCache, api, storage, deb>>
AddPendingChange ==
    LET w == addPendingChangeIn(storage, pendingQ, "add", StorageCard("p1"), nextChange)
    IN  /\ nextChange <= MaxPending
        /\ pendingQ' = w.after
        /\ nextChange' = IF w.threw THEN nextChange ELSE nextChange + 1
        /\ storage' = IF w.threw THEN storage ELSE Written(storage, "pending")
        /\ ret' = CatalogRet("addPendingChange", "pending", Ended(w), <<>>, "none")
        /\ SyncLayerRest
        /\ UNCHANGED <<now, cache, usersCache, searchCache, cardCache, api, deb>>
ClearPendingChanges ==
    LET w == clearPendingChangesIn(storage, pendingQ)
    IN  /\ pendingQ' = w.after
        /\ storage' = Written(storage, "pending")
        /\ ret' = CatalogRet("clearPendingChanges", "pending", Ended(w), <<>>, "none")
        /\ SyncLayerRest
        /\ UNCHANGED <<now, cache, nextChange, usersCache, searchCache, cardCache, api, deb>>

InitStorage == Init /\ online
NextStorage ==
    \/ \E mode \in {"ok", "unavailable"} : StorageAvailability(mode)
    \/ \E key \in StorageKeys \ (CardIds \ StoredCardIds) : StorageCorrupted(key)
    \/ GetCachedUsers
    \/ SetCachedUsers
    \/ \E u \in Users : GetCachedCollection(u)
    \/ \E u \in Users : SetCachedCollection(u)
    \/ \E q \in Queries : GetCachedSearch(q)
    \/ \E q \in Queries : SetCachedSearch(q)
    \/ \E id \in StoredCardIds : GetCachedCard(id)
    \/ \E id \in StoredCardIds : SetCachedCard(id)
    \/ GetPendingChanges
    \/ AddPendingChange
    \/ ClearPendingChanges
SpecStorage == InitStorage /\ [][NextStorage]_vars

(***************************************************************************)
(* debounce(func, Wait): the wrapper, the timer it sets and the clock.     *)
(* A timer runs its callback at the instant it is due: time does not pass  *)
(* over a due timer, and no call is made before the due callback has run.  *)
(***************************************************************************)
\* a timer is pending and its delay has elapsed
TimerDue(d, t) == d.timeout # <<>> /\ d.timeout[1].due <= t
\* mutant of executedFunction: a pending timer is kept, the call sets none
executedFunctionKeepsTimer(d, t, args) ==
    [d EXCEPT !.timeout = IF d.timeout # <<>> THEN d.timeout
                          ELSE <<[due |-> t + Wait, args |-> args]>>,
              !.calls = Append(@, [at |-> t, args |-> args])]
\* if (timeout) clearTimeout(timeout); timeout = setTimeout(later, wait)
executedFunction(d, t, args) ==
    [d EXCEPT !.timeout = <<[due |-> t + Wait, args |-> args]>>,
              !.calls = Append(@, [at |-> t, args |-> args])]
\* later: timeout = null; func(...args)
later(d, t) ==
    [d EXCEPT !.timeout = <<>>,
              !.invoked = Append(@, [at |-> t, args |-> d.timeout[1].args])]
\* a step of debounce leaves the stores and the catalog alone
DebounceOnly ==
    /\ SyncLayerIdle
    /\ UNCHANGED <<ret, searchCache, cardCache, api, storage>>

\* the wrapper is called
Debounced(args) ==
    /\ ~TimerDue(deb, now)
    /\ Len(deb.calls) < MaxDebounced
    /\ deb' = executedFunction(deb, now, args)
    /\ UNCHANGED now
    /\ DebounceOnly
\* the timer runs `later`
TimerFires ==
    /\ TimerDue(deb, now)
    /\ deb' = later(deb, now)
    /\ UNCHANGED now
    /\ DebounceOnly
\* a millisecond passes
Advance ==
    /\ ~TimerDue(deb, now)
    /\ now < MaxTime
    /\ now' = now + 1
    /\ UNCHANGED deb
    /\ DebounceOnly

InitDebounce == Init /\ online
NextDebounce ==
    \/ \E args \in Args : Debounced(args)
    \/ TimerFires
    \/ Advance
SpecDebounce == InitDebounce /\ [][NextDebounce]_vars

(***************************************************************************)
(* Properties.  `ret` is the call that completed in the step just taken    *)
(* (NoRet after any other step), so a state predicate on `ret` speaks of   *)
(* the moment a call returns or raises, and an action formula on `ret'`    *)
(* of the step that completes it.                                          *)
(***************************************************************************)
Mutations == {"add", "update", "delete"}
Cards(userId) == CachedOrEmpty(cache, userId)
QueueIds == { pendingQ[i].id : i \in 1..Len(pendingQ) }
Last(q) == q[Len(q)]
IsPrefix(p, q) == Len(p) <= Len(q) /\ \A i \in 1..Len(p) : q[i] = p[i]
\* a mutation call made offline has just returned
OfflineReturn(r) == r.op \in Mutations /\ ~r.online /\ r.outcome = "returned"
\* the card carries every field value the call supplied
Supplied(card, updates) ==
    /\ updates.quantity # <<>> => card.quantity = updates.quantity[1]
    /\ updates.condition # <<>> => card.condition = updates.condition[1]
    /\ updates.notes # <<>> => card.notes = updates.notes[1]

\* C1: at the moment an addCardToCollection, updateCardInCollection (of a
\* cached entry) or deleteCardFromCollection call made offline returns, the
\* profile's cached collection contains the new entry with the supplied
\* values (create), the entry with the supplied field values (update), or no
\* entry with the deleted id (delete).
C1_OptimisticDurability ==
    OfflineReturn(ret) =>
        /\ cache[ret.user].present
        /\ ret.op \in {"add", "update"} =>
              \E i \in 1..Len(Cards(ret.user)) :
                  /\ Cards(ret.user)[i].id = ret.id
                  /\ Cards(ret.user)[i].userId = ret.user
                  /\ Supplied(Cards(ret.user)[i], ret.updates)
        /\ ret.op = "delete" => ret.id \notin Ids(Cards(ret.user))

\* an update made offline has returned and changed a value of the cached entry
C1_Witness ==
    /\ OfflineReturn(ret)
    /\ ret.op = "update"
    /\ ret.entry[1] \in Range(Cards(ret.user))
    /\ ret.entry[1] \notin Range(ret.before)

\* C2: a mutation call made offline (update and delete: of a cached entry)
\* suspends on no Remote Store request, leaves the rows of the Remote Store
\* unchanged and appends exactly one pending operation of its kind whose
\* payload is the entry as optimistically written (for a create, with its
\* temporary id).
C2_OfflineQueuesOnly ==
    [][ (OfflineReturn(ret') /\ (ret'.op = "add" \/ ret'.entry # <<>>)) =>
           /\ InFlight(tasks') = InFlight(tasks)
           /\ sync' = sync
           /\ remote' = remote
           /\ Len(pendingQ') = Len(pendingQ) + 1
           /\ IsPrefix(pendingQ, pendingQ')
           /\ Last(pendingQ').type = ret'.op
           /\ Last(pendingQ').data = ret'.entry[1]
           /\ ret'.op = "add" => /\ IsTemp(Last(pendingQ').data.id)
                                 /\ Last(pendingQ').data \in Range(CachedOrEmpty(cache', ret'.user))
           /\ ret'.op = "update" => Last(pendingQ').data \in Range(CachedOrEmpty(cache', ret'.user))
           /\ ret'.op = "delete" => Last(pendingQ').data \in Range(ret'.before)
       ]_vars

\* a delete made offline has returned and its operation is the tail of the queue
C2_Witness ==
    /\ OfflineReturn(ret)
    /\ ret.op = "delete"
    /\ ret.entry # <<>>
    /\ pendingQ # <<>>
    /\ Last(pendingQ).type = "delete"
    /\ remote # {}

\* a syncPendingChanges pass has just ended (returned or raised) after
\* issuing at least one request
PassEnded(r) == r.op = "sync" /\ r.pending # <<>>
AllOk(results) == \A i \in 1..Len(results) : results[i] = "ok"
\* a pass of the single queued change c, queued by a call made offline, has
\* just returned with no remote failure
SinglePass(r) ==
    /\ PassEnded(r)
    /\ r.outcome = "returned"
    /\ Len(r.pending) = 1
    /\ r.results = <<"ok">>
    /\ r.pending[1].id \in offlineIds
\* the row carries the queued values of the entry (a note that is absent or
\* empty is stored as null)
RowCarries(row, data) ==
    /\ row.user_id = data.userId
    /\ row.card_id = data.cardId
    /\ row.quantity = data.quantity
    /\ row.condition = data.condition
    /\ row.notes = (IF data.notes \in {Undefined, ""} THEN Null ELSE data.notes)
\* the step from rows to rows2 is exactly the mutation of the change
Reflects(rows, rows2, change) ==
    CASE change.type = "add" ->
            \E r \in rows2 :
                /\ r.id \notin RowIds(rows)
                /\ ~IsTemp(r.id)
                /\ rows2 = rows \cup {r}
                /\ RowCarries(r, change.data)
      [] change.type = "update" ->
            \E old \in rows, new \in rows2 :
                /\ old.id = change.data.id
                /\ new.id = old.id
                /\ rows2 = (rows \ {old}) \cup {new}
                /\ new.user_id = old.user_id
                /\ new.card_id = old.card_id
                /\ new.quantity = change.data.quantity
                /\ new.condition = change.data.condition
                /\ new.notes = (IF change.data.notes \in {Undefined, ""} THEN Null
                                ELSE change.data.notes)
      [] change.type = "delete" ->
            /\ change.data.id \notin RowIds(rows2)
            /\ rows2 = { r \in rows : r.id # change.data.id }

\* C3: when the queue holds a single mutation queued offline (a create, or an
\* update or delete of an entry the Remote Store holds) and a pass replays it
\* online with no remote failure, the replay changes the Remote Store by
\* exactly that mutation (one new row with the queued values / the row's
\* quantity, condition and notes set to the queued values / the row removed)
\* and the pass ends with an empty pending queue.
C3_QueueFidelity ==
    [][ (SinglePass(ret') /\ (ret'.pending[1].type = "add"
                               \/ ret'.pending[1].data.id \in RowIds(remote))) =>
           /\ Reflects(remote, remote', ret'.pending[1])
           /\ pendingQ' = <<>>
       ]_vars

\* a pass has replayed a single update, queued offline, of a row the Remote
\* Store holds, and the row now differs from the cached entry it was made from
C3_Witness ==
    /\ SinglePass(ret)
    /\ ret.pending[1].type = "update"
    /\ \E r \in remote : r.id = ret.pending[1].data.id /\ r.quantity = 2 /\ r.notes = Null
    /\ pendingQ = <<>>

\* C4: every operation that was appended to the pending queue and is no
\* longer in it has been re-issued against the Remote Store by a replay pass
\* and has succeeded there.
C4_ConsumedOnlyAfterReplay ==
    \A id \in 1..(nextChange - 1) : id \notin QueueIds => id \in applied

\* C5: a pass that issued requests ends either with every request succeeded,
\* the queue cleared and the status idle, or, if a request failed, at that
\* request (no later one issued), with the queue as it was before the pass,
\* the status error and the failure raised to the caller.
C5_AllOrNothingPass ==
    PassEnded(ret) =>
        IF AllOk(ret.results)
        THEN /\ Len(ret.results) = Len(ret.pending)
             /\ pendingQ = <<>>
             /\ status = "idle"
             /\ ret.outcome = "returned"
        ELSE /\ AllOk(SubSeq(ret.results, 1, Len(ret.results) - 1))
             /\ IsPrefix(ret.pending, pendingQ)
             /\ status = "error"
             /\ ret.outcome = "raised"

\* an online mutation call of the kind has just ended, no other mutation call
\* having been made between its call and its end
OnlineEnd(r, op, response) ==
    r.op = op /\ r.online /\ r.response = response /\ r.alone

\* C6: when addCardToCollection is called online and the insert succeeds, with
\* no other mutation call made meanwhile, the Remote Store gains exactly one
\* row, with a server-assigned id; the call returns that row; the profile's
\* cached collection holds that row exactly once and no entry with the
\* temporary id; nothing is appended to the pending queue.
C6_OnlineAddConfirmed ==
    [][ OnlineEnd(ret', "add", "ok") =>
           \E r \in remote' :
               /\ r.id \notin RowIds(remote)
               /\ ~IsTemp(r.id)
               /\ remote' = remote \cup {r}
               /\ RowCarries(r, ret'.entry[1])
               /\ ret'.outcome = "returned"
               /\ ret'.value = <<collectionCardRowToCollectionCard(r)>>
               /\ ret'.value[1] \in Range(CachedOrEmpty(cache', ret'.user))
               /\ CountId(CachedOrEmpty(cache', ret'.user), r.id) = 1
               /\ ret'.id \notin Ids(CachedOrEmpty(cache', ret'.user))
               /\ pendingQ' = pendingQ
       ]_vars

\* C7: after an entry was created offline (cached under a temporary id,
\* queued as an add) and a pass has replayed the queue with every request
\* succeeded, the profile's cached collection holds no entry with that
\* temporary id, it holds the entry under the id of the row the replay
\* created, and the pending queue is empty.
C7_ReplayReplacesTempId ==
    (PassEnded(ret) /\ ret.outcome = "returned" /\ AllOk(ret.results)) =>
        \A i \in 1..Len(ret.pending) :
            (ret.pending[i].type = "add" /\ ret.pending[i].id \in offlineIds) =>
                /\ ret.pending[i].data.id \notin Ids(Cards(ret.pending[i].data.userId))
                /\ \E r \in remote :
                       /\ RowCarries(r, ret.pending[i].data)
                       /\ collectionCardRowToCollectionCard(r)
                              \in Range(Cards(ret.pending[i].data.userId))
                /\ pendingQ = <<>>

\* C8: when deleteCardFromCollection is called online for a cached entry whose
\* row the Remote Store holds and the remote delete fails, with no other mutation call made meanwhile, the
\* profile's cached collection ends with the same entries as before the call
\* (the deleted entry present exactly once), exactly one delete operation
\* carrying the entry is appended to the pending queue and the Remote Store
\* is unchanged.
C8_FailedDeleteRestores ==
    [][ (OnlineEnd(ret', "delete", "failed") /\ ret'.entry # <<>> /\ ret'.id \in RowIds(remote)) =>
           /\ \A c \in Range(CachedOrEmpty(cache', ret'.user)) \cup Range(ret'.before) :
                  CountCard(CachedOrEmpty(cache', ret'.user), c) = CountCard(ret'.before, c)
           /\ CountId(CachedOrEmpty(cache', ret'.user), ret'.id) = 1
           /\ Len(pendingQ') = Len(pendingQ) + 1
           /\ IsPrefix(pendingQ, pendingQ')
           /\ Last(pendingQ').type = "delete"
           /\ Last(pendingQ').data = ret'.entry[1]
           /\ remote' = remote
       ]_vars

\* C9: when a pass fails on the replay of a delete that was queued offline
\* (of an entry whose row the Remote Store holds), the deleted entry is back in the profile's cached collection at the end of
\* the pass and the delete operation is still in the pending queue.
C9_FailedReplayRestoresDelete ==
    PassEnded(ret) =>
        \A i \in 1..Len(ret.results) :
            (/\ ret.results[i] # "ok"
             /\ ret.pending[i].type = "delete"
             /\ ret.pending[i].id \in offlineIds
             /\ ret.pending[i].data.id \in RowIds(remote)) =>
                /\ ret.pending[i].data \in Range(Cards(ret.pending[i].data.userId))
                /\ ret.pending[i] \in Range(pendingQ)

C11_UpdateOfUncachedRaises ==
    [][ /\ (/\ ret'.op = "update"
            /\ ret'.response = "none"
            /\ ret'.id \notin Ids(CachedOrEmpty(cache, ret'.user))) =>
               /\ ret'.outcome = "raised"
               /\ ret'.value = <<>>
               /\ cache' = cache
               /\ pendingQ' = pendingQ
               /\ remote' = remote
               /\ tasks' = tasks
               /\ sync' = sync
        /\ \A s \in Slots :
               (tasks[s].op = "idle" /\ tasks'[s].op = "update") =>
                   tasks'[s].id \in Ids(CachedOrEmpty(cache, tasks'[s].user))
      ]_vars

\* an update called online for the id of a stored row that is not cached
\* (its delete is suspended) has raised
C11_Witness ==
    /\ ret.op = "update"
    /\ ret.online
    /\ ret.outcome = "raised"
    /\ ret.response = "none"
    /\ ret.id \in RowIds(remote)
    /\ ret.id \notin Ids(Cards(ret.user))
    /\ InFlight(tasks) # {}

Reads == {"syncCollection", "syncUsers"}
\* what the cache stores for the read: the profile's collection or the profiles
StoredFor(r, c, uc) == IF r.op = "syncCollection" THEN c[r.user] ELSE uc
StoredList(r, c, uc) ==
    IF r.op = "syncCollection" THEN c[r.user].cards ELSE uc.users

\* C12: syncCollectionFromServer and syncUsersFromServer, called offline or
\* called online with a fetch that fails, leave the caches and the Remote
\* Store unchanged (offline: issue no request) and return exactly the value
\* the cache stores at that moment, or raise when it stores none.
C12_CacheFirstRead ==
    [][ (ret'.op \in Reads /\ (~ret'.online \/ ret'.response = "failed")) =>
           /\ cache' = cache
           /\ usersCache' = usersCache
           /\ remote' = remote
           /\ ~ret'.online => read' = read
           /\ IF StoredFor(ret', cache, usersCache).present
              THEN /\ ret'.outcome = "returned"
                   /\ ret'.value = <<StoredList(ret', cache, usersCache)>>
              ELSE /\ ret'.outcome = "raised"
                   /\ ret'.value = <<>>
      ]_vars

\* syncCollectionFromServer called offline has returned a stored collection
\* that holds an entry
C12_Witness ==
    /\ ret.op = "syncCollection"
    /\ ~ret.online
    /\ ret.outcome = "returned"
    /\ ret.value # <<>>
    /\ ret.value[1] # <<>>
    /\ ret.value[1] = cache[ret.user].cards

\* C13: while fullSync is pulling (suspended on the fetch of the profiles or
\* of the collection) its replay pass has finished and every request of that
\* pass was applied to the Remote Store: after a replay that did not fully
\* succeed the pull is not performed.
C13_PullOnlyAfterFullReplay ==
    full.pc \in {"users", "collection"} =>
        /\ sync.pc = "idle"
        /\ AllOk(full.results)

\* the rows of the Remote Store that replays of the queued add c have created
RowsOf(c) == { p \in created : p[1] = c /\ ServerId(p[2]) \in RowIds(remote) }

\* C14: however often the passes re-issue a queued create (an earlier pass
\* having applied it and then failed on a later operation, the queue left
\* intact), the Remote Store holds at most one row made from that create.
C14_ReplayedCreateNotDuplicated ==
    \A c \in 1..(nextChange - 1) : Cardinality(RowsOf(c)) <= 1

(***************************************************************************)
(* C15                                                                     *)
(***************************************************************************)
\* the quantity carried by the request a suspended mutation call awaits
\* (<<>>: a delete, or an update that sets no quantity)
SentQuantity(t) ==
    CASE t.op = "add" -> <<collectionCardToRow(t.entry[1]).quantity>>
      [] t.op = "update" -> UpdateData(t.updates).quantity
      [] OTHER -> <<>>
\* the quantity carried by the request of a replayed change
ReplayedQuantity(change) ==
    CASE change.type = "add" -> <<collectionCardToRow(change.data).quantity>>
      [] change.type = "update" -> ReplayUpdateData(change.data).quantity
      [] OTHER -> <<>>

\* C15: no insert or update request carrying a quantity <= 0 is ever sent to
\* the Remote Store, neither by addCardToCollection or updateCardInCollection
\* themselves nor by a replay of the pending queue.
C15_NonPositiveQuantityNeverSent ==
    /\ \A s \in InFlight(tasks) : \A q \in Range(SentQuantity(tasks[s])) : q > 0
    /\ sync.pc = "await" =>
          \A q \in Range(ReplayedQuantity(sync.pending[sync.i])) : q > 0

(***************************************************************************)
(* C16                                                                     *)
(***************************************************************************)
\* the Remote Store refuses the request of the change on every attempt: an
\* insert or update that violates CHECK (quantity > 0), an update or delete
\* whose id is not a UUID
AlwaysRejected(change) == ~ReplayAccepted(change)

\* C16: when a replay pass ends, every operation it replayed that the Remote
\* Store rejects on every attempt is still in the pending queue, together
\* with every operation queued behind it.
C16_RejectedStaysQueued ==
    PassEnded(ret) =>
        \A i \in 1..Len(ret.pending) :
            AlwaysRejected(ret.pending[i]) =>
                \A j \in i..Len(ret.pending) : ret.pending[j] \in Range(pendingQ)

(***************************************************************************)
(* C17                                                                     *)
(***************************************************************************)
\* a call of the kind on the entry ended with a successful response while
\* the call that has just ended was suspended
EndedMeanwhile(r, op) ==
    \E e \in Range(r.earlier) : e.op = op /\ e.id = r.id /\ e.response = "ok"

\* C17: when an update and a delete of the same entry are in flight together
\* and both succeed, the cached collection reflects the one whose response
\* returns last: the entry is absent when the delete's response is the last,
\* present with the updated values when the update's response is the last.
C17_LastResponseWins ==
    /\ (ret.op = "delete" /\ ret.response = "ok" /\ EndedMeanwhile(ret, "update")) =>
           ret.id \notin Ids(Cards(ret.user))
    /\ (ret.op = "update" /\ ret.response = "ok" /\ EndedMeanwhile(ret, "delete")) =>
           \E i \in 1..Len(Cards(ret.user)) :
               /\ Cards(ret.user)[i].id = ret.id
               /\ Supplied(Cards(ret.user)[i], ret.updates)

(***************************************************************************)
(* C18                                                                     *)
(***************************************************************************)
\* a syncCollectionFromServer call made online has just ended, its fetch
\* having succeeded
Fetched(r) == r.op = "syncCollection" /\ r.online /\ r.response = "ok"
\* the rows of the profile in the Remote Store
RowsFor(rows, userId) == { r \in rows : r.user_id = userId }
\* the list holds the rows, each once, as entries, and nothing else
ExactlyRows(list, rows) ==
    /\ Len(list) = Cardinality(rows)
    /\ \A r \in rows : \E i \in 1..Len(list) : list[i] = collectionCardRowToCollectionCard(r)

\* C18: when syncCollectionFromServer(userId) runs online and its fetch
\* succeeds, the profile's cached collection becomes exactly the server's
\* rows of the profile (nothing of the former cached list is kept), the call
\* returns the new cached list, and the cached collections of the other
\* profiles, the cached profile list and the pending queue are unchanged.
C18_FetchReplacesCache ==
    [][ Fetched(ret') =>
           /\ cache'[ret'.user].present
           /\ ExactlyRows(cache'[ret'.user].cards, RowsFor(remote, ret'.user))
           /\ ret'.outcome = "returned"
           /\ ret'.value = <<cache'[ret'.user].cards>>
           /\ \A u \in Users \ {ret'.user} : cache'[u] = cache[u]
           /\ usersCache' = usersCache
           /\ pendingQ' = pendingQ
       ]_vars

\* a fetch for p1 has succeeded: the cache holds the stored row of p1 and no
\* longer the entry of the add that is still queued, while the cached list of
\* p2 and the cached profile list are still there
C18_Witness ==
    /\ Fetched(ret)
    /\ ret.user = "p1"
    /\ Cards("p1") # <<>>
    /\ pendingQ # <<>>
    /\ pendingQ[1].type = "add"
    /\ pendingQ[1].data.id \notin Ids(Cards("p1"))
    /\ cache["p2"].present
    /\ Cards("p2") # <<>>
    /\ usersCache.present

(***************************************************************************)
(* C19                                                                     *)
(***************************************************************************)
\* the callback is registered: it was passed to onSyncStatusChange and no
\* handle returned for it has been called since it was last passed
Registered(callback) ==
    /\ \E h \in Handles : subs[h] = [cb |-> callback, state |-> "active"]
    /\ ~\E h \in Handles : subs[h] = [cb |-> callback, state |-> "called"]

\* C19: the status is always one of idle, syncing, error, offline; the
\* statuses a step of syncPendingChanges or fullSync sets are delivered, in
\* order, to every registered callback and to no callback whose handle has
\* been called; getSyncStatus then returns the last status delivered; a step
\* that sets no status delivers nothing and leaves the status as it is.
C19_StatusBroadcast ==
    [][ /\ status \in Statuses
        /\ status' \in Statuses
        /\ lastSet' # <<>> =>
              /\ Range(lastSet') \subseteq Statuses
              /\ getSyncStatus' = Last(lastSet')
              /\ \A l \in Listeners :
                    inbox'[l] = IF Registered(l) THEN inbox[l] \o lastSet' ELSE inbox[l]
        /\ lastSet' = <<>> => getSyncStatus' = getSyncStatus /\ inbox' = inbox
      ]_vars

\* a pass has just ended with the status error, delivered to f, which is
\* registered twice over time (an earlier handle of f was called before), and
\* not to g, whose handle was called after it had received a status
C19_Witness ==
    /\ lastSet # <<>>
    /\ status = "error"
    /\ Registered("f")
    /\ \E h \in Handles : subs[h] = [cb |-> "f", state |-> "old"]
    /\ Last(inbox["f"]) = "error"
    /\ \E h \in Handles : subs[h] = [cb |-> "g", state |-> "called"]
    /\ inbox["g"] # <<>>
    /\ Last(inbox["g"]) # "error"

(***************************************************************************)
(* C20                                                                     *)
(***************************************************************************)
\* the step calls addPendingChange (each call numbers its change)
Queues == nextChange' # nextChange
\* the step starts a replay pass that issues a request
StartsPass == sync.pc = "idle" /\ sync'.pc = "await"
\* the step receives the response of the awaited request (the pass goes on
\* to its next request or ends)
Answered == sync.pc = "await" /\ sync' # sync

\* C20: addPendingChange puts the new operation at the tail of the queue and
\* leaves the operations already queued in place and in order; a replay pass
\* takes the queue as it is at its start and issues its operations one at a
\* time from the first to the last, the next one only when the response of
\* the one before has arrived, and changes the Remote Store by no operation
\* other than the one just answered.
C20_QueueOrder ==
    [][ /\ Queues =>
              /\ Len(pendingQ') = Len(pendingQ) + 1
              /\ IsPrefix(pendingQ, pendingQ')
              /\ Last(pendingQ').id = nextChange
        /\ StartsPass =>
              /\ sync'.pending = pendingQ
              /\ sync'.i = 1
              /\ sync'.results = <<>>
        /\ Answered =>
              /\ Len(sync.results) = sync.i - 1
              /\ applied' \ applied \subseteq {sync.pending[sync.i].id}
              /\ remote' # remote => remote' = ReplayApplied(remote, sync.pending[sync.i], nextRow)
              /\ sync'.pc = "await" =>
                    /\ sync'.pending = sync.pending
                    /\ sync'.i = sync.i + 1
                    /\ Len(sync'.results) = sync.i
              /\ (ret'.op = "sync" /\ ret'.outcome = "returned") => sync.i = Len(sync.pending)
      ]_vars

\* a pass over an add and an update queued in that order has had the response
\* of the add and awaits the response of the update
C20_Witness ==
    /\ sync.pc = "await"
    /\ sync.i = 2
    /\ Len(sync.results) = 1
    /\ sync.pending = pendingQ
    /\ pendingQ[1].type = "add"
    /\ pendingQ[2].type = "update"
    /\ pendingQ[1].id < pendingQ[2].id

(***************************************************************************)
(* C26                                                                     *)
(***************************************************************************)
\* a pass has just returned after replaying the add of an entry, which the
\* Remote Store applied, and then an update (to values the table accepts) or
\* delete of that entry, all queued offline under its temporary id
ReplayedTogether(r, i, j) ==
    /\ PassEnded(r)
    /\ r.outcome = "returned"
    /\ i < j
    /\ r.pending[i].type = "add"
    /\ r.pending[j].type \in {"update", "delete"}
    /\ r.pending[j].data.id = r.pending[i].data.id
    /\ {r.pending[i].id, r.pending[j].id} \subseteq offlineIds
    /\ r.results[i] = "ok"
    /\ CheckQuantity(r.pending[j].data.quantity)

\* C26: when a pass returns after replaying an add queued offline and an
\* update or delete of the same entry queued offline behind it, the Remote
\* Store holds the row created by the add with the updated quantity,
\* condition and notes, or, after a delete, no row created by the add.
C26_TempIdFollowsRow ==
    \A i \in 1..Len(ret.pending), j \in 1..Len(ret.pending) :
        ReplayedTogether(ret, i, j) =>
            IF ret.pending[j].type = "update"
            THEN \E p \in RowsOf(ret.pending[i].id) :
                     RowCarries(RowWithId(remote, ServerId(p[2])), ret.pending[j].data)
            ELSE RowsOf(ret.pending[i].id) = {}

(***************************************************************************)
(* C27                                                                     *)
(***************************************************************************)
\* an online add has just ended with its insert applied, another online add
\* of the profile (made at another instant: the temporary ids differ) having
\* ended the same way while it was suspended, and no mutation call is
\* suspended any more
BothAddsDone(r) ==
    /\ r.op = "add"
    /\ r.response = "ok"
    /\ \E e \in Range(r.earlier) : e.op = "add" /\ e.response = "ok" /\ e.id # r.id
    /\ InFlight(tasks) = {}

\* C27: when two online addCardToCollection calls of a profile overlap and
\* both inserts succeed, then once both have ended the profile's cached
\* collection holds each of its server rows exactly once and no entry with a
\* temporary id.
C27_ConcurrentAddsBothCached ==
    BothAddsDone(ret) =>
        /\ \A r \in RowsFor(remote, ret.user) : CountId(Cards(ret.user), r.id) = 1
        /\ \A i \in 1..Len(Cards(ret.user)) : ~IsTemp(Cards(ret.user)[i].id)

(***************************************************************************)
(* C28                                                                     *)
(***************************************************************************)
\* the entries of the profile that the cache holds as a queued add or update
\* wrote them
QueuedEntries(q, cards, userId) ==
    { q[i].data : i \in { k \in 1..Len(q) : /\ q[k].type \in {"add", "update"}
                                            /\ q[k].data.userId = userId
                                            /\ q[k].data \in Range(cards) } }

\* C28: a successful syncCollectionFromServer read keeps, with its optimistic
\* values, every cached entry whose add or update is still in the pending
\* queue.
C28_FetchKeepsQueuedEntries ==
    [][ Fetched(ret') =>
           QueuedEntries(pendingQ, Cards(ret'.user), ret'.user)
               \subseteq Range(CachedOrEmpty(cache', ret'.user))
      ]_vars

(***************************************************************************)
(* C29                                                                     *)
(***************************************************************************)
\* the fields of b the updates omit are those of a; id, owner and catalog
\* reference are those of a (a, b: entries)
OmittedKept(a, b, updates) ==
    /\ updates.condition = <<>> => b.condition = a.condition
    /\ updates.notes = <<>> => b.notes = a.notes
    /\ b.id = a.id
    /\ b.userId = a.userId
    /\ b.cardId = a.cardId

\* C29: when an online updateCardInCollection of a stored and cached entry
\* succeeds, no other mutation call having been made meanwhile, the fields
\* its updates omit are unchanged in the Remote Store row and in the cached
\* entry, and the id, owning profile and catalog reference of both are
\* unchanged.
C29_OmittedFieldsKept ==
    [][ (OnlineEnd(ret', "update", "ok") /\ ret'.id \in RowIds(remote)) =>
           /\ OmittedKept(collectionCardRowToCollectionCard(RowWithId(remote, ret'.id)),
                          collectionCardRowToCollectionCard(RowWithId(remote', ret'.id)),
                          ret'.updates)
           /\ \E i \in 1..Len(ret'.before), j \in 1..Len(CachedOrEmpty(cache', ret'.user)) :
                 /\ ret'.before[i].id = ret'.id
                 /\ CachedOrEmpty(cache', ret'.user)[j].id = ret'.id
                 /\ OmittedKept(ret'.before[i], CachedOrEmpty(cache', ret'.user)[j],
                                ret'.updates)
      ]_vars

(***************************************************************************)
(* C30                                                                     *)
(***************************************************************************)
\* C30: while a fullSync call is in progress (it awaits the replay of a queued
\* change, the fetch of the profiles or the fetch of the collection) the
\* status is syncing, and the statuses delivered to the listeners in a step
\* that leaves it in progress are all syncing.
C30_SyncingUntilPulled ==
    full.pc # "idle" => status = "syncing" /\ Range(lastSet) \subseteq {"syncing"}

(***************************************************************************)
(* C21                                                                     *)
(***************************************************************************)
\* the step is a call of the catalog function that returns from the cache
FromCache(fn) == ret'.op = fn /\ ret'.response = "none"
\* the step is a call of the catalog function that issues its fetch
Requests(fn) == api.pc = "idle" /\ api'.pc = "await" /\ api'.fn = fn
\* the entry is there and younger than the lifetime
Younger(e, lifetime) == e.present /\ now - e.timestamp < lifetime

\* C21: searchCards returns the cached result of its query only while the
\* entry is less than 24 hours old; otherwise it issues a request and the
\* entry, if any, is removed.  getCardById does the same with a lifetime of 7
\* days, which is longer than 24 hours.
C21_CacheExpiry ==
    [][ /\ FromCache("searchCards") =>
              /\ Younger(searchCache[toLowerCase(ret'.arg)], 24 * 60 * 60 * 1000)
              /\ ret'.value = <<searchCache[toLowerCase(ret'.arg)].data>>
        /\ Requests("searchCards") =>
              /\ ~Younger(searchCache[toLowerCase(api'.query)], 24 * 60 * 60 * 1000)
              /\ ~searchCache'[toLowerCase(api'.query)].present
        /\ FromCache("getCardById") =>
              /\ Younger(cardCache[ret'.arg], 7 * 24 * 60 * 60 * 1000)
              /\ ret'.value = <<cardCache[ret'.arg].data>>
        /\ Requests("getCardById") =>
              /\ ~Younger(cardCache[api'.ids[1]], 7 * 24 * 60 * 60 * 1000)
              /\ ~cardCache'[api'.ids[1]].present
        /\ CACHE_DURATION.SEARCH < CACHE_DURATION.CARD
      ]_vars

\* exactly 24 hours after a search was cached, searchCards of its query has
\* found the entry expired, removed it and issued a request, while a card
\* cached at the same time is still there
C21_Witness ==
    /\ api.pc = "await"
    /\ api.fn = "searchCards"
    /\ api.stale
    /\ now = 24 * 60 * 60 * 1000
    /\ ~searchCache[toLowerCase(api.query)].present
    /\ \E id \in CardIds : cardCache[id].present /\ cardCache[id].timestamp = 0

(***************************************************************************)
(* C22                                                                     *)
(***************************************************************************)
\* a searchCards call has just ended after its fetch, with the response
SearchEnded(r, response) == r.op = "searchCards" /\ r.response = response
\* the search cache holds, under some key, a result of the query (in
\* whatever case it was typed) that is less than 24 hours old
FreshResult(sc, query) ==
    \E k \in DOMAIN sc :
        /\ sc[k].present
        /\ sc[k].data = ApiSearch(query)
        /\ now - sc[k].timestamp < 24 * 60 * 60 * 1000

ValidIds(cardIds) ==
    { id \in Range(cardIds) : Younger(cardCache[id], 7 * 24 * 60 * 60 * 1000) }
\* the ids of the cards of the list
CardIdsOf(cards) == { cards[i].id : i \in 1..Len(cards) }

\* C23: getCardsByIds returns from the cache, without a request, exactly when
\* every requested id has a valid cached item; otherwise it issues one
\* request, for exactly the requested ids that have none; when the request
\* succeeds it returns the cached items followed by the fetched ones, a card
\* for each requested id, and every fetched card is in the card cache,
\* stamped with the current time.
C23_BatchFetchesOnlyUncached ==
    [][ /\ FromCache("getCardsByIds") =>
              /\ Range(ret'.arg) \subseteq ValidIds(ret'.arg)
              /\ CardIdsOf(ret'.value[1]) = Range(ret'.arg)
              /\ \A i \in 1..Len(ret'.value[1]) :
                    ret'.value[1][i] = cardCache[ret'.value[1][i].id].data
        /\ Requests("getCardsByIds") =>
              /\ Range(api'.uncached) = Range(api'.ids) \ ValidIds(api'.ids)
              /\ Range(api'.uncached) # {}
              /\ CardIdsOf(api'.cached) = ValidIds(api'.ids)
        /\ (ret'.op = "getCardsByIds" /\ ret'.response = "ok") =>
              /\ ret'.outcome = "returned"
              /\ CardIdsOf(ret'.value[1]) = Range(ret'.arg)
              /\ SubSeq(ret'.value[1], 1, Len(api.cached)) = api.cached
              /\ \A i \in (Len(api.cached) + 1)..Len(ret'.value[1]) :
                    /\ ret'.value[1][i].id \in Range(api.uncached)
                    /\ cardCache'[ret'.value[1][i].id] = Entry(ret'.value[1][i], now)
              /\ \A id \in CardIds \ Range(api.uncached) : cardCache'[id] = cardCache[id]
      ]_vars

\* getCardsByIds of two cards has just returned after its request: one card
\* came from the cache, where it was stored earlier, the other was fetched
\* and is cached now
C23_Witness ==
    /\ ret.op = "getCardsByIds"
    /\ ret.response = "ok"
    /\ Len(ret.arg) = 2
    /\ Len(ret.value[1]) = 2
    /\ cardCache[ret.value[1][1].id].timestamp < now
    /\ cardCache[ret.value[1][2].id].timestamp = now

(***************************************************************************)
(* C24                                                                     *)
(***************************************************************************)
ReadAccessors ==
    {"getCachedUsers", "getCachedCollection", "getCachedSearch", "getCachedCard",
     "getPendingChanges"}
WriteAccessors ==
    {"setCachedUsers", "setCachedCollection", "setCachedSearch", "setCachedCard",
     "addPendingChange", "clearPendingChanges"}
\* the storage is unavailable or the key holds a text that does not parse
Broken(key) == storage.mode = "unavailable" \/ key \in storage.corrupt
\* null, or the empty list for the pending changes
NoDataValue(op) == IF op = "getPendingChanges" THEN << <<>> >> ELSE <<>>

\* C24: when the storage is unavailable or the key holds unparseable data,
\* every read accessor of the Local Cache Store returns its no-data value
\* (null; the empty list for the pending changes) without raising, and no
\* write accessor raises.
C24_StorageFailuresDegrade ==
    /\ ret.op \in ReadAccessors /\ Broken(ret.arg) =>
          ret.outcome = "returned" /\ ret.value = NoDataValue(ret.op)
    /\ ret.op \in WriteAccessors => ret.outcome = "returned"

\* getPendingChanges has just returned the empty list although changes were
\* queued, because the storage is unavailable
C24_Witness ==
    /\ ret.op = "getPendingChanges"
    /\ storage.mode = "unavailable"
    /\ pendingQ # <<>>
    /\ ret.outcome = "returned"
    /\ ret.value = << <<>> >>

(***************************************************************************)
(* C25                                                                     *)
(***************************************************************************)
\* the call is the last of its burst: the next call, if there is one, comes
\* Wait or more after it
LastOfBurst(cs, i) == i = Len(cs) \/ cs[i + 1].at - cs[i].at >= Wait
\* the invocations of func the bursts of the calls cs are owed up to the
\* instant t: one for the last call of each burst, Wait after it, with its
\* arguments
RECURSIVE Owed(_, _, _)
Owed(cs, i, t) ==
    IF i > Len(cs) THEN <<>>
    ELSE IF LastOfBurst(cs, i) /\ cs[i].at + Wait <= t
    THEN <<[at |-> cs[i].at + Wait, args |-> cs[i].args]>> \o Owed(cs, i + 1, t)
    ELSE Owed(cs, i + 1, t)

\* C25: with debounce(func, Wait), the invocations of func made so far are
\* exactly one for each burst of calls spaced less than Wait apart, Wait
\* after the burst's last call and with that call's arguments (the invocation
\* due at the present instant may be about to run); in particular no call
\* of the wrapper invokes func itself, and a call that follows the previous
\* one by less than Wait cancels its invocation: the one pending invocation
\* is that of the latest call.
C25_DebounceOncePerBurst ==
    /\ deb.invoked = Owed(deb.calls, 1, IF TimerDue(deb, now) THEN now - 1 ELSE now)
    /\ deb.timeout # <<>> =>
          /\ deb.calls # <<>>
          /\ deb.timeout[1] = [due |-> deb.calls[Len(deb.calls)].at + Wait,
                               args |-> deb.calls[Len(deb.calls)].args]

\* a burst of two calls with different arguments, the second less than Wait
\* after the first, has been answered by one invocation of func, with the
\* second call's arguments
C25_Witness ==
    /\ Len(deb.calls) = 2
    /\ deb.calls[1].at < deb.calls[2].at
    /\ deb.calls[2].at - deb.calls[1].at < Wait
    /\ deb.calls[1].args # deb.calls[2].args
    /\ deb.invoked = <<[at |-> deb.calls[2].at + Wait, args |-> deb.calls[2].args]>>
====
